---- MODULE Spec2Model ----
(***************************************************************************)
(* Forensic-expertise archive: the Case Index, the add/scan/search         *)
(* operations and the archive placement of the two revisions of            *)
(* ForensicArchiveAgent kept in the repository:                            *)
(*   "agent" - forensic_archive_agent.py (minimal revision)                *)
(*   "opt"   - forensic_archive_optimized.py + forensic_part2_optimized.py *)
(*                                                                         *)
(* Text values that the code processes character by character (numbers,    *)
(* path segments, file names) are sequences of one-character strings.      *)
(* Cyrillic literals of the source are transliterated to ASCII; the        *)
(* original literal is given in the comment next to each of them.          *)
(***************************************************************************)
EXTENDS Integers, Sequences, FiniteSets, TLC

VARIABLES
    variant,          \* which revision of ForensicArchiveAgent runs
    index_only_mode,  \* self.index_only_mode
    database_initialized, \* init_database has run (self._database_initialized)
    db,               \* table expertise_cases, rows in rowid order
    nextId,           \* AUTOINCREMENT counter of expertise_cases.id
    archive,          \* files under self.archive_folder: path -> source they were copied from
    cacheInit,        \* cache system initialised (self.cache_timestamps exists)
    search_cache,     \* search_<key>.pkl files in CACHE_DIR: key -> result set
    cache_timestamps, \* self.cache_timestamps: key -> time of caching
    now,              \* wall clock, seconds
    last,             \* what the last public operation returned
    inflight,         \* add_document calls of the agent revision under way: caller -> call
    errCauses         \* history: error texts returned for expertise_number conflicts

vars == <<variant, index_only_mode, database_initialized, db, nextId, archive, cacheInit,
          search_cache, cache_timestamps, now, last, inflight, errCauses>>

-----------------------------------------------------------------------------
(* Bounds of the model *)

MaxRecords == 2      \* rows the Case Index may hold
MaxFiles == 2        \* files the archive folder may hold
MaxId == 8           \* ids the AUTOINCREMENT counter may hand out
MaxTicks == 1        \* how many times the clock advances
MaxFaultAt == 2      \* the environment fails one of the first MaxFaultAt files or batches

-----------------------------------------------------------------------------
(* Program constants *)

CurrentYear == 2026          \* datetime.now().year
FILE_SCAN_CACHE_TTL == 3600  \* seconds
MinNumberLen == 3            \* agent: len(expertise_num) > 3
ErrorDetailsCap == 10        \* error_details[:10]

None == <<"<None>">>         \* Python None / SQL NULL for text values
Empty == << >>               \* the empty string ''

Falsy(s) == s = None \/ s = Empty    \* Python truthiness of a text value

Digits == {"0", "1", "2", "3", "4", "5", "6", "7", "8", "9"}

(* characters replaced by re.sub(r'[<>:"/\\|?*]', '_', ...) *)
IllegalChars == {"<", ">", ":", "\"", "/", "\\", "|", "?", "*"}

\* 'почерк та ТЕД'
S_pocherk == <<"p","o","c","h","e","r","k"," ","t","a"," ","T","E","D">>
\* "почерк та  ТЕД" (two spaces) as written in the agent revision's table
S_pocherk2 == <<"p","o","c","h","e","r","k"," ","t","a"," "," ","T","E","D">>
\* 'балісти'
S_balisty == <<"b","a","l","i","s","t","y">>
\* 'трасологія'
S_trasolohiya == <<"t","r","a","s","o","l","o","h","i","y","a">>
\* 'дактилоскопія'
S_daktyloskopiya == <<"d","a","k","t","y","l","o","s","k","o","p","i","y","a">>
\* 'бал. облік'
S_baloblik == <<"b","a","l","."," ","o","b","l","i","k">>
\* 'Невідомий_експерт'
UnknownExpert == <<"N","e","v","i","d","o","m","y","i","_","e","k","s","p","e","r","t">>

(* self.sectors.values() of each revision *)
sectors ==
    IF variant = "agent"
    THEN {S_pocherk2, S_balisty, S_trasolohiya, S_daktyloskopiya, S_baloblik}
    ELSE {S_pocherk, S_balisty, S_trasolohiya, S_daktyloskopiya, S_baloblik}

DefaultSector == S_pocherk

(* expertise types: 'почеркознавча', 'зброї', 'трасологічна',            *)
(* 'дактилоскопічна', 'бал. облік', 'невизначено'                        *)
T_pocherk == "pocherkoznavcha"
T_zbroi == "zbroi"
T_trasol == "trasolohichna"
T_daktylo == "daktyloskopichna"
T_baloblik == "bal. oblik"
T_undetermined == "nevyznacheno"

-----------------------------------------------------------------------------
(* Helpers on sequences *)

Range(s) == {s[i] : i \in DOMAIN s}

HasDigit(s) == \E i \in DOMAIN s : s[i] \in Digits

(* re.sub(r'[<>:"/\\|?*]', '_', s) *)
Sanitize(s) == [i \in DOMAIN s |-> IF s[i] \in IllegalChars THEN "_" ELSE s[i]]

(* re.match(r'^\d+(/\d+)*$', s): digit groups separated by single slashes *)
IsDigitSlash(s) ==
    /\ Len(s) > 0
    /\ \A i \in DOMAIN s : s[i] \in Digits \cup {"/"}
    /\ s[1] \in Digits
    /\ s[Len(s)] \in Digits
    /\ \A i \in 1..(Len(s) - 1) : ~(s[i] = "/" /\ s[i + 1] = "/")

\* what the group (\d+(?:/\d+)*) captures at the start of token s:
\* the longest prefix that is digit groups separated by slashes
DigitSlashPrefix(s) ==
    LET ok == {n \in 1..Len(s) : IsDigitSlash(SubSeq(s, 1, n))}
    IN  IF ok = {} THEN Empty
        ELSE SubSeq(s, 1, CHOOSE n \in ok : \A m \in ok : m <= n)

-----------------------------------------------------------------------------
(* The documents of the modelled world.  A document text is described by   *)
(* what the regular expressions of the parsers capture in it; the checks,  *)
(* normalisations and fallbacks applied to the captures are modelled from  *)
(* the code.                                                               *)

NoDate == [day |-> Empty, month |-> Empty, year |-> 0]

(* keywords of the classifiers of both revisions (patterns of re.search    *)
(* are kept as written, transliterated)                                    *)
Keywords == {"pocherk", "pidpys", "rukopys", "zbroya", "pistolet", "avtomat",
             "nizh", "kholodna", "kulya", "hilza", "balisty", "slid",
             "vidbytok", "trasol", "daktylo", "palets", "papilyar",
             "kholodna zbroya", "vohnepalna", "postril", "nabii", "patron",
             "stvol", "vzuttya", "shyny", "transport", "koleso", "protektor",
             "mekhanoskopi", "zamok", "klyuch", "vidbytok palts", "dermatohlif",
             "pysmo", "hrafoloh", "identyfik.*pidpys", "kulya.*oblik",
             "hilza.*oblik", "balistychnyi oblik", "identyfik.*kulya"}

NoWords == [k \in Keywords |-> 0]

(* numTok   : token after the expertise label and the number sign          *)
(* erddrTok : token after the case-register label                          *)
(* date     : first full date dd.mm.yyyy (year 0: none)                    *)
(* bareYear : first token 20dd (0: none)                                   *)
(* expert   : "Surname I.I." after an expert label (Empty: none)           *)
(* kw       : occurrences of each classifier keyword                       *)
(* ctx      : keywords followed by a context word (ekspertyz|...)          *)
Texts ==
    [c1 |-> [numTok |-> <<"1","0","/","2">>,
             erddrTok |-> <<"1","2","0","2","3","4","5","0","0","0","1">>,
             date |-> [day |-> <<"1","2">>, month |-> <<"3">>, year |-> 2024],
             bareYear |-> 2024,
             expert |-> Empty,
             kw |-> [NoWords EXCEPT !["pistolet"] = 2, !["slid"] = 1],
             ctx |-> {}],
     c2 |-> [numTok |-> <<"1","0","/","2">>,
             erddrTok |-> Empty,
             date |-> [day |-> <<"5">>, month |-> <<"0","6">>, year |-> 1999],
             bareYear |-> 0,
             expert |-> <<"I","v","a","n","k","o"," ","A",".","B",".">>,
             kw |-> [NoWords EXCEPT !["pidpys"] = 1],
             ctx |-> {"pidpys"}],
     c3 |-> [numTok |-> Empty,
             erddrTok |-> Empty,
             date |-> NoDate,
             bareYear |-> 2029,
             expert |-> Empty,
             kw |-> NoWords,
             ctx |-> {}]]

ContentIds == DOMAIN Texts

MAX_FILE_SIZE_MB == 100
BytesPerMb == 1048576

\* directory 'Балісти_Петренко'
D_balisty == <<"B","a","l","i","s","t","y","_","P","e","t","r","e","n","k","o">>
D_inbox == <<"i","n","b","o","x">>
D_temp == <<"t","e","m","p">>
D_year == <<"2","0","2","3">>

MkFile(dir, stem, ext, mb, readable, content) ==
    [dir |-> dir, stem |-> stem, ext |-> ext, size_mb |-> mb,
     readable |-> readable, content |-> content]

F_a1 == MkFile(<<D_balisty, D_year>>, <<"a">>, ".docx", 1, TRUE, "c1")
F_a2 == MkFile(<<D_inbox>>, <<"a">>, ".docx", 1, TRUE, "c2")
F_b == MkFile(<<D_inbox>>, <<"b">>, ".docx", 1, TRUE, "c1")
F_c == MkFile(<<D_inbox>>, <<"c">>, ".docx", 1, TRUE, "c3")
F_txt == MkFile(<<D_inbox>>, <<"d">>, ".txt", 1, TRUE, "c3")
F_big == MkFile(<<D_inbox>>, <<"e">>, ".docx", 101, TRUE, "c3")
F_locked == MkFile(<<D_inbox>>, <<"g">>, ".docx", 1, FALSE, "c3")
F_tmp == MkFile(<<D_inbox, D_temp>>, <<"h">>, ".docx", 1, TRUE, "c3")
F_copy == MkFile(<<D_inbox>>, <<"k">>, ".docx", 1, TRUE, "c3")   \* a copy of c.docx

Files == {F_a1, F_a2, F_b, F_c, F_txt, F_big, F_locked, F_tmp, F_copy}

SUPPORTED_EXTENSIONS == {".doc", ".docx", ".pdf"}

(* os.path.basename(file_path) *)
Basename(f) == f.stem \o <<f.ext>>

(* the file's path, one element per path segment *)
PathOf(f) == f.dir \o <<Basename(f)>>

(* get_file_size_mb / int(size_mb * 1024 * 1024) *)
FileSize(f) == f.size_mb * BytesPerMb

(* _get_file_hash: md5 of the bytes, None when the file cannot be read *)
_get_file_hash(f) == IF f.readable THEN <<f.content>> ELSE None

-----------------------------------------------------------------------------
(* Field Parser, Type Classifier, Sector Resolver and Record Validator of  *)
(* the optimised revision (forensic_part2_optimized.py)                    *)

RECURSIVE SumOver(_, _)
SumOver(f, seq) == IF seq = << >> THEN 0 ELSE f[Head(seq)] + SumOver(f, Tail(seq))

(* day.zfill(2) *)
Zfill2(s) == IF Len(s) < 2 THEN <<"0">> \o s ELSE s

\* re.sub(r'\s+', '_', s): every run of blanks becomes one underscore
RECURSIVE BlanksToUnderscore(_)
BlanksToUnderscore(s) ==
    IF s = << >> THEN << >>
    ELSE IF Head(s) = " "
         THEN IF Len(s) > 1 /\ s[2] = " "
              THEN BlanksToUnderscore(Tail(s))
              ELSE <<"_">> \o BlanksToUnderscore(Tail(s))
         ELSE <<Head(s)>> \o BlanksToUnderscore(Tail(s))

\* re.sub(r'[^\d]', '', s)
OnlyDigits(s) == SelectSeq(s, LAMBDA c : c \in Digits)

\* what (\d{11,12}) captures at the start of token s (Empty: no match)
DigitRun(s) ==
    LET n == CHOOSE k \in 0..Len(s) :
                 /\ \A i \in 1..k : s[i] \in Digits
                 /\ (k < Len(s) => s[k + 1] \notin Digits)
    IN  IF n < 11 THEN Empty ELSE SubSeq(s, 1, IF n > 12 THEN 12 ELSE n)

_get_default_expertise_data(f) ==
    [erddr_number |-> None,
     expertise_number |-> None,
     expertise_date |-> NoDate,
     expertise_year |-> 0,
     expertise_type |-> T_undetermined,
     expert_name |-> UnknownExpert,
     sector |-> S_pocherk,
     source_file |-> Basename(f),
     file_path |-> PathOf(f),
     file_size |-> FileSize(f),
     file_hash |-> None]

_parse_erddr_patterns(text) ==
    LET erddr == DigitRun(text.erddrTok)
    IN  IF erddr # Empty /\ 11 <= Len(erddr) /\ Len(erddr) <= 12 THEN erddr ELSE None

_parse_expertise_number_patterns(text) ==
    LET number == DigitSlashPrefix(text.numTok)
    IN  IF number # Empty THEN number ELSE None

(* numeric date formats: date_str = dd.mm.yyyy zero-filled, year = int(yyyy) *)
_parse_date_patterns(text) ==
    IF text.date.year # 0
    THEN [expertise_date |-> [day |-> Zfill2(text.date.day),
                              month |-> Zfill2(text.date.month),
                              year |-> text.date.year],
          expertise_year |-> text.date.year]
    ELSE [expertise_date |-> NoDate, expertise_year |-> 0]

_parse_expert_patterns(text) ==
    IF text.expert # Empty THEN BlanksToUnderscore(text.expert) ELSE UnknownExpert

(* self.expertise_keywords, in dictionary order *)
expertise_keywords ==
    << <<T_pocherk, <<"pocherk", "pidpys", "rukopys">> >>,
       <<T_zbroi, <<"zbroya", "pistolet", "avtomat", "nizh", "kholodna",
                    "kulya", "hilza", "balisty">> >>,
       <<T_trasol, <<"slid", "vidbytok", "trasol">> >>,
       <<T_daktylo, <<"daktylo", "palets", "papilyar">> >>,
       <<T_baloblik, <<"kulya", "hilza">> >> >>

(* weight of one type: count * 3 for a keyword in context, count otherwise *)
TypeWeight(text, keywords) ==
    SumOver([k \in Keywords |-> IF k \in text.ctx THEN text.kw[k] * 3 ELSE text.kw[k]],
            keywords)

(* max(expertise_weights, key=expertise_weights.get): first maximum *)
_determine_expertise_type(text) ==
    LET w == [i \in DOMAIN expertise_keywords |->
                 TypeWeight(text, expertise_keywords[i][2])]
        scored == {i \in DOMAIN w : w[i] > 0}
    IN  IF scored = {} THEN T_undetermined
        ELSE expertise_keywords[CHOOSE i \in scored :
                 /\ \A j \in scored : w[j] <= w[i]
                 /\ \A j \in scored : (w[j] = w[i]) => i <= j][1]

_determine_sector(expertise_type) ==
    CASE expertise_type = T_pocherk -> S_pocherk
      [] expertise_type = T_zbroi -> S_balisty
      [] expertise_type = T_trasol -> S_trasolohiya
      [] expertise_type = T_daktylo -> S_daktyloskopiya
      [] expertise_type = T_baloblik -> S_baloblik
      [] OTHER -> S_pocherk

YearInRange(year) == 2000 <= year /\ year <= CurrentYear + 1

_validate_and_clean_expertise_data(data) ==
    LET erddr == OnlyDigits(data.erddr_number)
        d1 == IF Falsy(data.erddr_number) THEN data
              ELSE IF ~(11 <= Len(erddr) /\ Len(erddr) <= 12)
                   THEN [data EXCEPT !.erddr_number = None]
                   ELSE [data EXCEPT !.erddr_number = erddr]
        d2 == IF ~Falsy(d1.expertise_number) /\ ~IsDigitSlash(d1.expertise_number)
              THEN [d1 EXCEPT !.expertise_number = None]
              ELSE d1
        d3 == IF d2.expertise_year # 0 /\ ~YearInRange(d2.expertise_year)
              THEN [d2 EXCEPT !.expertise_year = 0, !.expertise_date = NoDate]
              ELSE d2
        d4 == IF ~Falsy(d3.expert_name) /\ Len(d3.expert_name) < 3
              THEN [d3 EXCEPT !.expert_name = UnknownExpert]
              ELSE d3
    IN  d4

(* _extract_document_content: '' unless a .docx/.pdf within the size      *)
(* ceiling that the document library can open                             *)
ExtractOk(f) ==
    /\ f.ext \in {".docx", ".pdf"}
    /\ f.size_mb <= MAX_FILE_SIZE_MB
    /\ f.readable

(* parse_expertise_document(file_path) of the optimised revision *)
parse_expertise_document(f) ==
    IF ~ExtractOk(f) THEN _get_default_expertise_data(f)
    ELSE LET text == Texts[f.content]
             type == _determine_expertise_type(text)
             dt == _parse_date_patterns(text)
             result == [_get_default_expertise_data(f) EXCEPT
                           !.erddr_number = _parse_erddr_patterns(text),
                           !.expertise_number = _parse_expertise_number_patterns(text),
                           !.expertise_date = dt.expertise_date,
                           !.expertise_year = dt.expertise_year,
                           !.expert_name = _parse_expert_patterns(text),
                           !.expertise_type = type,
                           !.sector = _determine_sector(type)]
         IN  _validate_and_clean_expertise_data(result)

(* what parse_expertise_document returns for each file of the tree *)
ParsedDocuments == [f \in Files |-> parse_expertise_document(f)]

-----------------------------------------------------------------------------
(* The Case Index: table expertise_cases *)

MkRow(id, data) ==
    [id |-> id,
     erddr_number |-> data.erddr_number,
     expertise_number |-> data.expertise_number,
     expertise_date |-> data.expertise_date,
     expertise_year |-> data.expertise_year,
     expertise_type |-> data.expertise_type,
     expert_name |-> data.expert_name,
     sector |-> data.sector,
     source_file |-> data.source_file,
     file_path |-> data.file_path,
     file_size |-> data.file_size,
     file_hash |-> data.file_hash]

Rows(table) == Range(table)

(* a column without the UNIQUE constraint: no number is ever refused *)
NoUniqueConstraint(table, number) == FALSE

(* expertise_number TEXT UNIQUE: a non-NULL number may occur once *)
UniqueViolation(table, number) ==
    number # None /\ \E r \in Rows(table) : r.expertise_number = number

-----------------------------------------------------------------------------
(* Paths.  A path is the sequence of its segments below the root it is     *)
(* relative to; os.path.join with a string that contains separators adds  *)
(* one segment per part.                                                   *)

RECURSIVE SplitSlash(_)
SplitSlash(s) ==
    LET cut == {i \in DOMAIN s : s[i] = "/"}
    IN  IF cut = {} THEN <<s>>
        ELSE LET i == CHOOSE k \in cut : \A m \in cut : k <= m
             IN  <<SubSeq(s, 1, i - 1)>> \o SplitSlash(SubSeq(s, i + 1, Len(s)))

(* os.path.join(path, s) *)
Join(path, s) == path \o SelectSeq(SplitSlash(s), LAMBDA seg : seg # << >>)

DigitChar(d) ==
    CASE d = 0 -> "0" [] d = 1 -> "1" [] d = 2 -> "2" [] d = 3 -> "3"
      [] d = 4 -> "4" [] d = 5 -> "5" [] d = 6 -> "6" [] d = 7 -> "7"
      [] d = 8 -> "8" [] d = 9 -> "9"

(* str(n) for a natural number *)
RECURSIVE NatToStr(_)
NatToStr(n) == IF n < 10 THEN <<DigitChar(n)>>
               ELSE NatToStr(n \div 10) \o <<DigitChar(n % 10)>>

(* all directories on the way to path, path included: os.makedirs *)
Prefixes(path) == {SubSeq(path, 1, n) : n \in 1..Len(path)}

(* the directories under self.archive_folder: the sector directories made *)
(* at construction and the directories that hold the files of the archive *)
Dirs(files) ==
    (IF variant = "agent" \/ ~index_only_mode
     THEN {<<Sanitize(sc)>> : sc \in sectors} ELSE {})
    \cup UNION {Prefixes(SubSeq(p, 1, Len(p) - 1)) : p \in DOMAIN files}

(* os.path.exists(path) *)
Exists(path) == path \in DOMAIN archive \/ path \in Dirs(archive)

(* f"{name}_{counter}{ext}" below target_dir; counter 0 is f"{name}{ext}" *)
Candidate(target_dir, name, ext, counter) ==
    Join(target_dir,
         (IF counter = 0 THEN name ELSE name \o <<"_">> \o NatToStr(counter)) \o <<ext>>)

(* the while os.path.exists(target_path) loop: first free candidate *)
FreeCounter(target_dir, name, ext) ==
    CHOOSE k \in 0..(Cardinality(DOMAIN archive) + Cardinality(Dirs(archive)) + 1) :
        /\ ~Exists(Candidate(target_dir, name, ext, k))
        /\ \A j \in 0..(k - 1) : Exists(Candidate(target_dir, name, ext, j))

E_EXPERT_DIR == "Ne vdalosya stvoryty papku eksperta"   \* 'Не вдалося створити папку експерта'
E_COPY == "Pomylka kopiyuvannya failu"                  \* 'Помилка копіювання файлу'

(* _copy_file_to_archive(source_path, parsed_data).                        *)
(* mkExpertOk, mkYearOk: whether os.makedirs succeeds; copyOk: whether     *)
(* shutil.copy2 can write                                                  *)
_copy_file_to_archive(f, parsed_data, mkExpertOk, mkYearOk, copyOk) ==
    LET sector_path == Join(<< >>, parsed_data.sector)
        expert_path == Join(sector_path, parsed_data.expert_name)
        year_path == Join(expert_path, NatToStr(parsed_data.expertise_year))
        withYear == parsed_data.expertise_year # 0 /\ mkYearOk
        target_dir == IF withYear THEN year_path ELSE expert_path
        made == Prefixes(target_dir)
        name == IF Falsy(parsed_data.expertise_number) THEN f.stem
                ELSE parsed_data.expertise_number \o <<"_">> \o f.stem
        k == FreeCounter(target_dir, name, f.ext)
        target_path == Candidate(target_dir, name, f.ext, k)
        parent == SubSeq(target_path, 1, Len(target_path) - 1)
    IN  IF ~mkExpertOk
        THEN [success |-> FALSE, error |-> E_EXPERT_DIR, archive_path |-> << >>,
              files |-> archive]
        ELSE IF ~copyOk \/ ~f.readable \/ parent \notin (Dirs(archive) \cup made)
             THEN [success |-> FALSE, error |-> E_COPY, archive_path |-> << >>,
                   files |-> archive]
             ELSE [success |-> TRUE, error |-> "", archive_path |-> target_path,
                   files |-> [p \in DOMAIN archive \cup {target_path} |->
                                 IF p = target_path THEN PathOf(f) ELSE archive[p]]]

-----------------------------------------------------------------------------
(* Field Parser and Type Classifier of the agent revision                  *)
(* (forensic_archive_agent.py)                                             *)

\* re.sub(r'^[^\d]*|[^\d]*$', '', s)
StripNonDigitEdges(s) ==
    LET idx == {i \in DOMAIN s : s[i] \in Digits}
    IN  IF idx = {} THEN Empty
        ELSE SubSeq(s, CHOOSE i \in idx : \A j \in idx : i <= j,
                       CHOOSE i \in idx : \A j \in idx : j <= i)

(* expertise_keywords_weighted, in dictionary order: type, keywords, weight *)
expertise_keywords_weighted ==
    << <<T_zbroi, <<"zbroya", "pistolet", "avtomat", "nizh", "kholodna zbroya",
                    "vohnepalna", "kulya", "hilza", "balisty", "postril",
                    "nabii", "patron", "stvol">>, 10>>,
       <<T_trasol, <<"trasol", "slid", "vidbytok", "papilyar", "vzuttya", "shyny",
                     "transport", "koleso", "protektor", "mekhanoskopi", "zamok",
                     "klyuch">>, 8>>,
       <<T_daktylo, <<"daktylo", "palets", "papilyar", "vidbytok palts",
                      "dermatohlif">>, 9>>,
       <<T_pocherk, <<"pocherk", "pidpys", "rukopys", "pysmo", "hrafoloh",
                      "identyfik.*pidpys">>, 7>>,
       <<T_baloblik, <<"kulya.*oblik", "hilza.*oblik", "balistychnyi oblik",
                       "identyfik.*kulya">>, 6>> >>

trasology_indicators == {"slid", "vidbytok", "vzuttya", "shyny", "mekhanoskopi", "zamok"}
weapons_indicators == {"postril", "vohnepalna", "stvol", "nabii"}

RepeatBonus == 2
DisambiguationBonus == 5

(* score of one type: weight per keyword present plus 2 per repeated occurrence *)
TypeScore(text, keywords, weight) ==
    SumOver([k \in Keywords |->
                IF text.kw[k] > 0 THEN weight + (text.kw[k] - 1) * RepeatBonus ELSE 0],
            keywords)

(* type_scores after the weapons / trace disambiguation; 0: type not scored *)
TypeScores(text) ==
    LET base == [i \in DOMAIN expertise_keywords_weighted |->
                    TypeScore(text, expertise_keywords_weighted[i][2],
                              expertise_keywords_weighted[i][3])]
        trasology_count == Cardinality({k \in trasology_indicators : text.kw[k] > 0})
        weapons_count == Cardinality({k \in weapons_indicators : text.kw[k] > 0})
    IN  IF base[1] > 0 /\ base[2] > 0
        THEN IF trasology_count > weapons_count
             THEN [base EXCEPT ![2] = @ + DisambiguationBonus]
             ELSE [base EXCEPT ![1] = @ + DisambiguationBonus]
        ELSE base

(* determine_expertise_type(text) *)
determine_expertise_type(text) ==
    LET w == TypeScores(text)
        scored == {i \in DOMAIN w : w[i] > 0}
    IN  IF scored = {} THEN T_undetermined
        ELSE expertise_keywords_weighted[CHOOSE i \in scored :
                 /\ \A j \in scored : w[j] <= w[i]
                 /\ \A j \in scored : (w[j] = w[i]) => i <= j][1]

(* sector_type_mapping.get(sector_code): "" when the sector is not a key *)
sector_type_mapping(sector_code) ==
    CASE sector_code = S_pocherk -> T_pocherk
      [] sector_code = S_balisty -> T_zbroi
      [] sector_code = S_trasolohiya -> T_trasol
      [] sector_code = S_daktyloskopiya -> T_daktylo
      [] sector_code = S_baloblik -> T_baloblik
      [] OTHER -> ""

(* the type of the examinations of each sector of self.sectors:           *)
(* "Сектор почеркознавчих досліджень", "Сектор досліджень зброї", ...     *)
SectorType(sector_code) ==
    CASE sector_code \in {S_pocherk, S_pocherk2} -> T_pocherk
      [] sector_code = S_balisty -> T_zbroi
      [] sector_code = S_trasolohiya -> T_trasol
      [] sector_code = S_daktyloskopiya -> T_daktylo
      [] sector_code = S_baloblik -> T_baloblik

(* f"{expected_type} (авто)" *)
AutoCorrected(t) ==
    CASE t = T_pocherk -> "pocherkoznavcha (avto)"
      [] t = T_zbroi -> "zbroi (avto)"
      [] t = T_trasol -> "trasolohichna (avto)"
      [] t = T_daktylo -> "daktyloskopichna (avto)"
      [] t = T_baloblik -> "bal. oblik (avto)"

(* determine_expertise_type_by_sector(text, sector_code) *)
determine_expertise_type_by_sector(text, sector_code) ==
    LET general_type == determine_expertise_type(text)
        expected_type == sector_type_mapping(sector_code)
    IN  IF general_type = T_undetermined \/ expected_type # ""
        THEN IF general_type # T_undetermined /\ expected_type # ""
                /\ general_type # expected_type
             THEN AutoCorrected(expected_type)
             ELSE IF expected_type # "" THEN expected_type ELSE general_type
        ELSE general_type

Year2030 == 2030

(* parse_expertise_document(text, filename, sector_code) of the agent revision *)
agent_parse_expertise_document(text, filename, sector_code) ==
    LET erddr == StripNonDigitEdges(text.erddrTok)
        hasDate == text.date.year # 0
        year == IF hasDate THEN text.date.year
                ELSE IF text.bareYear # 0 /\ 2000 <= text.bareYear
                        /\ text.bareYear <= Year2030
                     THEN text.bareYear ELSE 0
    IN  [erddr_number |-> IF Len(erddr) >= 8 THEN erddr ELSE Empty,
         expertise_number |-> IF HasDigit(text.numTok) /\ Len(text.numTok) > MinNumberLen
                              THEN text.numTok ELSE Empty,
         expertise_date |-> IF hasDate THEN text.date ELSE NoDate,
         expertise_year |-> year,
         expertise_type |-> IF Falsy(sector_code)
                            THEN determine_expertise_type(text)
                            ELSE determine_expertise_type_by_sector(text, sector_code),
         source_file |-> filename]

-----------------------------------------------------------------------------
(* Results of the public operations.  cause is the outcome that the       *)
(* storage layer or the file system actually produced, error the text the *)
(* caller gets.  input, dup_check and matching describe the call: what    *)
(* it was given, what the duplicate lookup did, and the ids of the rows   *)
(* that had the content hash (matching) or the file name (same_name) of   *)
(* the file when the call began; value is what a classifier or resolver   *)
(* returned.                                                               *)

NoTally == [total_files |-> 0, processed |-> 0, errors |-> 0, error_details |-> << >>]

(* the result of a batch scan has the keys success, total_files,          *)
(* processed, errors and error_details: no entry reports skipped rows      *)
ReportedSkipped(tally) == 0

Result(op, input, success, error, cause) ==
    [op |-> op, input |-> input, success |-> success, error |-> error,
     cause |-> cause, dup_check |-> "", matching |-> {}, same_name |-> {},
     existing_id |-> 0, value |-> "",
     document_id |-> 0, raised |-> FALSE, rows |-> {}, tally |-> NoTally,
     log |-> << >>, callbacks |-> 0, skipped |-> {}]

E_UNSUPPORTED == "Nepidtrymuvanyi format failu"       \* 'Непідтримуваний формат файлу'
E_EXISTS_FILE == "Fail vzhe isnuye v bazi (ID)"       \* 'Файл вже існує в базі (ID: ...)'
E_SAVE == "Pomylka zberezhennya v bazu danykh"        \* 'Помилка збереження в базу даних'

Petrenko == <<"P","e","t","r","e","n","k","o">>
BadSector == <<"x","/","y">>
Num10_2 == <<"1","0","_","2">>
Num10s2 == <<"1","0","/","2">>

(* **override_data of the callers that are modelled *)
OptOverrides ==
    {<< >>,
     [expertise_year |-> 1999],
     [sector |-> BadSector],
     [expertise_number |-> Num10_2]}

(* parsed_data.update(override_data) *)
Update(data, override_data) ==
    [k \in DOMAIN data |-> IF k \in DOMAIN override_data THEN override_data[k] ELSE data[k]]

(* rows that _check_duplicate_document may fetch: the rows with the hash, *)
(* or, when there is none, the rows with the file name                    *)
DuplicateRows(table, file_hash, f) ==
    LET byHash == {r \in Rows(table) : file_hash # None /\ r.file_hash = file_hash}
        byName == {r \in Rows(table) : r.source_file = Basename(f)}
    IN  IF byHash # {} THEN byHash ELSE byName

(* ids of the rows of the table whose source_file is the name of the file *)
IdsWithName(table, f) == {r.id : r \in {x \in Rows(table) : x.source_file = Basename(f)}}

(* ids of the rows of the table that carry the content hash *)
IdsWithHash(table, file_hash) ==
    {r.id : r \in {x \in Rows(table) : file_hash # None /\ x.file_hash = file_hash}}

(* _invalidate_search_cache: the search_*.pkl files are removed *)
_invalidate_search_cache(cache) == IF cacheInit THEN << >> ELSE cache

RecordCause(res) ==
    IF ~res.success /\ res.cause = "integrity"
    THEN errCauses \cup {res.error}
    ELSE errCauses

(* what a call of add_document is given and finds: the file and its      *)
(* hash, whether its text can be extracted, which                         *)
(* directory levels of the destination the file system lets be created    *)
(* ("full": all of them, "fallback": the sector directory only, "none")   *)
(* and whether shutil.copy2 can write                                     *)
AddInput(f, force_reparse, extracted, placement, copyOk) ==
    [file_hash |-> _get_file_hash(f), force |-> force_reparse, file |-> PathOf(f),
     extracted |-> extracted, placement |-> placement, copyOk |-> copyOk]

(* the documents handed to add_document one at a time *)
AddFiles == {F_a1, F_a2, F_b, F_c, F_txt, F_locked}

(* add_document / _add_document_impl of the optimised revision.           *)
(* lookupOk, saveOk: whether the store answers the duplicate query and    *)
(* the INSERT; mk*, copyOk: whether the file system obeys                 *)
_add_document_impl(f, force_reparse, override_data, lookupOk, mkExpertOk, mkYearOk, copyOk, saveOk) ==
    LET file_hash == _get_file_hash(f)
        input == AddInput(f, force_reparse, ExtractOk(f),
                          IF mkExpertOk /\ mkYearOk THEN "full" ELSE "fallback", copyOk)
        looked == ~force_reparse /\ file_hash # None
        dups == IF looked /\ lookupOk THEN DuplicateRows(db, file_hash, f) ELSE {}
        parsed_data == [Update(ParsedDocuments[f], override_data)
                           EXCEPT !.file_hash = file_hash]
        copy_result == _copy_file_to_archive(f, parsed_data, mkExpertOk, mkYearOk, copyOk)
        data == [parsed_data EXCEPT !.file_path =
                    IF index_only_mode THEN PathOf(f) ELSE copy_result.archive_path]
        conflict == UniqueViolation(db, data.expertise_number)
        Res(success, error, cause) ==
            [Result("add_document", input, success, error, cause) EXCEPT
                !.matching = IdsWithHash(db, file_hash),
                !.same_name = IdsWithName(db, f),
                !.dup_check = IF ~looked THEN "skipped"
                              ELSE IF ~lookupOk THEN "failed"
                              ELSE IF dups # {} THEN "hit" ELSE "miss"]
    IN  /\ variant = "opt"
        /\ IF f.ext \notin SUPPORTED_EXTENSIONS
           THEN /\ last' = Result("add_document", input, FALSE, E_UNSUPPORTED, "format")
                /\ UNCHANGED <<db, nextId, archive, search_cache>>
           ELSE IF dups # {}
           THEN /\ \E existing_doc \in dups :
                      last' = [Res(FALSE, E_EXISTS_FILE, "duplicate")
                                  EXCEPT !.existing_id = existing_doc.id]
                /\ UNCHANGED <<db, nextId, archive, search_cache>>
           ELSE IF ~index_only_mode /\ ~copy_result.success
           THEN /\ last' = Res(FALSE, copy_result.error, "copy")
                /\ UNCHANGED <<db, nextId, archive, search_cache>>
           ELSE /\ IF index_only_mode
                   THEN UNCHANGED archive
                   ELSE /\ Cardinality(DOMAIN copy_result.files) <= MaxFiles
                        /\ archive' = copy_result.files
                /\ IF conflict \/ ~saveOk
                   THEN /\ last' = Res(FALSE, E_SAVE,
                                       IF ~saveOk THEN "storage" ELSE "integrity")
                        /\ UNCHANGED <<db, nextId, search_cache>>
                   ELSE /\ Len(db) < MaxRecords
                        /\ db' = Append(db, MkRow(nextId, data))
                        /\ nextId' = nextId + 1
                        /\ search_cache' = _invalidate_search_cache(search_cache)
                        /\ last' = [Res(TRUE, "", "added") EXCEPT !.document_id = nextId]
        /\ errCauses' = RecordCause(last')
        /\ UNCHANGED <<inflight, variant, index_only_mode, cacheInit, cache_timestamps, now>>

E_INIT_RAISED == "init_database raised"

(* the exception of init_database leaves the public operation: nothing    *)
(* is returned and _database_initialized stays unset                      *)
InitDatabaseRaises(op, input) ==
    /\ variant = "opt"
    /\ last' = [Result(op, input, FALSE, E_INIT_RAISED, "raised") EXCEPT !.raised = TRUE]
    /\ UNCHANGED <<inflight, variant, index_only_mode, database_initialized, db, nextId, archive,
                   cacheInit, search_cache, cache_timestamps, now, errCauses>>

(* add_document of the optimised revision: _ensure_database_initialized,  *)
(* _ensure_archive_structure, _add_document_impl.  initOk: whether        *)
(* init_database succeeds when it runs                                    *)
AddDocumentOpt(f, force_reparse, override_data, initOk, lookupOk, mkExpertOk, mkYearOk, copyOk, saveOk) ==
    IF ~database_initialized /\ ~initOk
    THEN InitDatabaseRaises("add_document",
                            AddInput(f, force_reparse, ExtractOk(f),
                                     IF mkExpertOk /\ mkYearOk THEN "full" ELSE "fallback",
                                     copyOk))
    ELSE /\ database_initialized' = TRUE
         /\ _add_document_impl(f, force_reparse, override_data, lookupOk, mkExpertOk,
                               mkYearOk, copyOk, saveOk)

-----------------------------------------------------------------------------
(* Search and the search-result cache *)

Put(fn, key, value) ==
    [x \in DOMAIN fn \cup {key} |-> IF x = key THEN value ELSE fn[x]]

Contains(s, sub) ==
    \E i \in 1..(Len(s) - Len(sub) + 1) : SubSeq(s, i, i + Len(sub) - 1) = sub

SearchFilters ==
    {[expertise_number |-> None, expertise_year |-> 0],
     [expertise_number |-> Num10s2, expertise_year |-> 0],
     [expertise_number |-> <<"1","0">>, expertise_year |-> 2024]}

(* is_cache_valid(cache_key) *)
is_cache_valid(cache_key) ==
    /\ cache_key \in DOMAIN cache_timestamps
    /\ now - cache_timestamps[cache_key] < FILE_SCAN_CACHE_TTL

(* load_search_cache(cache_key) returns a result (otherwise None) *)
CacheHit(cache_key) ==
    /\ cacheInit
    /\ cache_key \in DOMAIN search_cache
    /\ is_cache_valid(cache_key)

(* columns of the SELECT of each revision: file_hash is never selected,   *)
(* file_size only by the optimised revision                               *)
Selected(r) ==
    IF variant = "opt" THEN [r EXCEPT !.file_hash = None]
    ELSE [r EXCEPT !.file_hash = None, !.file_size = 0]

(* a record written with all fields populated: no field that the parser  *)
(* or the caller fills is absent                                          *)
Populated(r) ==
    /\ ~Falsy(r.erddr_number)
    /\ ~Falsy(r.expertise_number)
    /\ r.expertise_date # NoDate
    /\ r.expertise_year # 0
    /\ r.expertise_type # T_undetermined
    /\ ~Falsy(r.expert_name)
    /\ ~Falsy(r.sector)
    /\ ~Falsy(r.source_file)
    /\ r.file_path # << >>

(* _build_optimized_search_query: conditions joined by AND, text by equality *)
QueryOpt(table, filter) ==
    {Selected(r) : r \in
        {r \in Rows(table) :
            /\ Falsy(filter.expertise_number)
               \/ r.expertise_number = filter.expertise_number
            /\ filter.expertise_year = 0
               \/ r.expertise_year = filter.expertise_year}}

(* value LIKE '%' || x || '%' of SQLite: x occurs in the value, an        *)
(* underscore of x standing for any one character (the filters of the     *)
(* modelled calls hold no letter and no percent sign)                     *)
Like(value, x) ==
    \E i \in 1..(Len(value) - Len(x) + 1) :
        \A k \in DOMAIN x : x[k] = "_" \/ value[i + k - 1] = x[k]

(* search_documents of the agent revision: text conditions by LIKE %x% *)
QueryAgent(table, filter) ==
    {Selected(r) : r \in
        {r \in Rows(table) :
            /\ Falsy(filter.expertise_number)
               \/ (r.expertise_number # None
                   /\ Like(r.expertise_number, filter.expertise_number))
            /\ filter.expertise_year = 0
               \/ r.expertise_year = filter.expertise_year}}

(* search_documents / _search_documents_impl of the optimised revision *)
_search_documents_impl(filter, use_cache, queryOk) ==
    LET hit == use_cache /\ filter \in DOMAIN search_cache /\ is_cache_valid(filter)
        results_df == IF queryOk THEN QueryOpt(db, filter) ELSE {}
        input == [filter |-> filter, use_cache |-> use_cache]
    IN  /\ variant = "opt"
        /\ cacheInit' = TRUE
        /\ IF hit
           THEN /\ last' = [Result("search_documents", input, TRUE, "", "cached")
                               EXCEPT !.rows = search_cache[filter]]
                /\ UNCHANGED <<search_cache, cache_timestamps>>
           ELSE /\ last' = [Result("search_documents", input, queryOk, "",
                                   IF queryOk THEN "queried" ELSE "storage")
                               EXCEPT !.rows = results_df]
                /\ IF use_cache /\ results_df # {}
                   THEN /\ search_cache' = Put(search_cache, filter, results_df)
                        /\ cache_timestamps' = Put(cache_timestamps, filter, now)
                   ELSE UNCHANGED <<search_cache, cache_timestamps>>
        /\ UNCHANGED <<inflight, variant, index_only_mode, db, nextId, archive, now, errCauses>>

(* search_documents of the optimised revision:                            *)
(* _ensure_database_initialized, _ensure_cache_initialized,               *)
(* _search_documents_impl                                                  *)
SearchDocumentsOpt(filter, use_cache, initOk, queryOk) ==
    IF ~database_initialized /\ ~initOk
    THEN InitDatabaseRaises("search_documents", [filter |-> filter, use_cache |-> use_cache])
    ELSE /\ database_initialized' = TRUE
         /\ _search_documents_impl(filter, use_cache, queryOk)

(* init_cache_system of the agent revision, called by the user interface *)
InitCacheSystem ==
    /\ variant = "agent"
    /\ cacheInit' = TRUE
    /\ cache_timestamps' = << >>
    /\ UNCHANGED <<inflight, variant, index_only_mode, database_initialized, db, nextId, archive,
                   search_cache, now, last, errCauses>>

(* search_documents of the agent revision.  Without init_cache_system     *)
(* self.cache_timestamps does not exist: loading fails and saving writes  *)
(* the file but records no timestamp                                      *)
SearchDocumentsAgent(filter, use_cache, queryOk) ==
    LET hit == use_cache /\ CacheHit(filter)
        df == IF queryOk THEN QueryAgent(db, filter) ELSE {}
        input == [filter |-> filter, use_cache |-> use_cache]
    IN  /\ variant = "agent"
        /\ IF hit
           THEN /\ last' = [Result("search_documents", input, TRUE, "", "cached")
                               EXCEPT !.rows = search_cache[filter]]
                /\ UNCHANGED <<search_cache, cache_timestamps>>
           ELSE /\ last' = [Result("search_documents", input, queryOk, "",
                                   IF queryOk THEN "queried" ELSE "storage")
                               EXCEPT !.rows = df]
                /\ IF use_cache /\ df # {}
                   THEN /\ search_cache' = Put(search_cache, filter, df)
                        /\ cache_timestamps' = IF cacheInit
                                               THEN Put(cache_timestamps, filter, now)
                                               ELSE cache_timestamps
                   ELSE UNCHANGED <<search_cache, cache_timestamps>>
        /\ UNCHANGED <<inflight, variant, index_only_mode, database_initialized, db, nextId, archive,
                       cacheInit, now, errCauses>>

(* the clock passes the time-to-live of the cache *)
Tick ==
    /\ now < MaxTicks * FILE_SCAN_CACHE_TTL
    /\ now' = now + FILE_SCAN_CACHE_TTL
    /\ UNCHANGED <<inflight, variant, index_only_mode, database_initialized, db, nextId, archive, cacheInit,
                   search_cache, cache_timestamps, last, errCauses>>

-----------------------------------------------------------------------------
-----------------------------------------------------------------------------
(* add_document and delete_document of the agent revision *)

E_AGENT_FORMAT == "Pidtrymuyutsya faily"                    \* 'Підтримуються файли: ...'
E_AGENT_READ == "Ne vdalosya prochytaty tekst z failu"      \* 'Не вдалося прочитати текст з файлу'
E_AGENT_EXPERT == "Ne vkazano prizvyshche eksperta"         \* 'Не вказано прізвище експерта'
E_AGENT_EXISTS == "Ekspertyza vzhe isnuye v bazi"           \* 'Експертиза №... вже існує в базі'
E_AGENT_CHECK == "Pomylka perevirky unikalnosti"            \* 'Помилка перевірки унікальності'
E_AGENT_OUTSIDE == "Fail ne znakhodytsya v zaznachenomu arkhivi"
E_AGENT_COPY == "Pomylka kopiyuvannya failu"                \* 'Помилка копіювання файлу'
E_AGENT_SAVE == "Pomylka zberezhennya v bazu"               \* 'Помилка збереження в базу: ...'
E_AGENT_RAISED == "sqlite3.connect raised"
E_AGENT_INDEXING == "Pomylka indeksuvannya"                 \* 'Помилка індексування: ...'
E_AGENT_NOT_FOUND == "Dokument ne znaideno v bazi danykh"   \* 'Документ не знайдено в базі даних'
E_AGENT_DELETE == "Pomylka vydalennya"                      \* 'Помилка видалення'

(* self.existing_archive_path given to the constructor in index-only mode *)
existing_archive_path == <<D_inbox>>

StartsWith(path, prefix) ==
    Len(prefix) <= Len(path) /\ SubSeq(path, 1, Len(prefix)) = prefix

AgentArgs ==
    {[sector_code |-> None, expert_name |-> None, expertise_year |-> 0,
      expertise_number |-> None],
     [sector_code |-> None, expert_name |-> Petrenko, expertise_year |-> 0,
      expertise_number |-> None],
     [sector_code |-> S_balisty, expert_name |-> Petrenko, expertise_year |-> 0,
      expertise_number |-> None],
     [sector_code |-> None, expert_name |-> Petrenko, expertise_year |-> 1999,
      expertise_number |-> None],
     [sector_code |-> None, expert_name |-> Petrenko, expertise_year |-> 0,
      expertise_number |-> Num10_2]}

(* sector_code arguments that reach parse_expertise_document *)
SectorArgs ==
    {None, S_pocherk, S_balisty, S_trasolohiya, S_daktyloskopiya, S_baloblik, BadSector}

(* what the agent revision's parse_expertise_document returns for each    *)
(* file of the tree and each sector_code                                  *)
AgentParsedDocuments ==
    [f \in Files, sector_code \in SectorArgs |->
        agent_parse_expertise_document(Texts[f.content], Basename(f), sector_code)]

(* f"AUTO_{timestamp}" *)
AutoNumber == <<"A","U","T","O","_">> \o NatToStr(now)

(* get_file_content: None when the document cannot be opened *)
get_file_content_ok(f) == f.ext \in {".docx", ".pdf"} /\ f.readable

(* get_file_destination_path: the full-depth directory, or the sector     *)
(* directory when os.makedirs of the full depth fails                      *)
FullDepthPath(sector_code, expert_name, expertise_year, expertise_number) ==
    <<Sanitize(IF Falsy(sector_code) THEN DefaultSector ELSE sector_code),
      Sanitize(IF Falsy(expert_name) THEN UnknownExpert ELSE expert_name),
      NatToStr(IF expertise_year # 0 THEN expertise_year ELSE CurrentYear),
      IF Falsy(expertise_number)
      THEN <<"e","k","s","p","e","r","t","y","z","a","_">> \o NatToStr(now)  \* f"експертиза_{timestamp}"
      ELSE Sanitize(expertise_number)>>

get_file_destination_path(sector_code, expert_name, expertise_year, expertise_number, mkFullOk) ==
    LET path == FullDepthPath(sector_code, expert_name, expertise_year, expertise_number)
    IN  IF mkFullOk THEN path ELSE SubSeq(path, 1, 1)

(* shutil.copy2(src, dst) of the agent revision: dst is written whether    *)
(* or not it exists                                                        *)
Copy2(files, dst, src) == Put(files, dst, src)

(* the data dictionary of add_document: arguments first, parsed fields    *)
(* otherwise                                                               *)
AgentData(f, a, parsed_data) ==
    LET number0 == IF Falsy(a.expertise_number) THEN parsed_data.expertise_number
                   ELSE a.expertise_number
    IN  [erddr_number |-> parsed_data.erddr_number,
         expertise_number |-> IF Falsy(number0) THEN AutoNumber ELSE number0,
         expertise_date |-> parsed_data.expertise_date,
         expertise_year |-> IF a.expertise_year # 0 THEN a.expertise_year
                            ELSE parsed_data.expertise_year,
         expertise_type |-> parsed_data.expertise_type,
         expert_name |-> IF Falsy(a.expert_name) THEN UnknownExpert ELSE a.expert_name,
         sector |-> IF Falsy(a.sector_code) THEN DefaultSector ELSE a.sector_code,
         source_file |-> parsed_data.source_file,
         file_path |-> PathOf(f),
         file_size |-> 0,
         file_hash |-> None]

(* add_document from the uniqueness check on: data is the dictionary built *)
(* from the arguments and the parsed fields                                *)
AgentStore(table, nid, files, f, a, data, connectOk, checkOk, mkFullOk, mkSimpleOk, copyOk, insertOk) ==
    LET indexing == index_only_mode
        dest_file_path ==
            get_file_destination_path(data.sector, data.expert_name, data.expertise_year,
                                      data.expertise_number, mkFullOk)
                \o <<Basename(f)>>
        row == MkRow(nid, IF indexing THEN data
                          ELSE [data EXCEPT !.file_path = dest_file_path])
        Out(t, n, fs, success, error, cause, id) ==
            [db |-> t, nextId |-> n, archive |-> fs, success |-> success,
             error |-> error, cause |-> cause, document_id |-> id]
        Fail(error, cause) == Out(table, nid, files, FALSE, error, cause, 0)
        copied == IF indexing THEN files ELSE Copy2(files, dest_file_path, PathOf(f))
    IN  IF f.ext \notin SUPPORTED_EXTENSIONS THEN Fail(E_AGENT_FORMAT, "format")
        ELSE IF ~get_file_content_ok(f) THEN Fail(E_AGENT_READ, "extraction")
        ELSE IF Falsy(a.expert_name) THEN Fail(E_AGENT_EXPERT, "expert")
        ELSE IF ~connectOk THEN Fail(E_AGENT_RAISED, "raised")
        ELSE IF ~checkOk THEN Fail(E_AGENT_CHECK, "storage")
        ELSE IF UniqueViolation(table, data.expertise_number)
        THEN Fail(E_AGENT_EXISTS, "integrity")
        ELSE IF indexing /\ ~StartsWith(PathOf(f), existing_archive_path)
        THEN Fail(E_AGENT_OUTSIDE, "outside")
        ELSE IF ~indexing /\ ~mkFullOk /\ ~mkSimpleOk THEN Fail(E_AGENT_COPY, "copy")
        ELSE IF ~indexing /\ ~copyOk
        THEN Fail(E_AGENT_COPY, "copy")
        ELSE IF ~insertOk
        THEN Out(table, nid, copied, FALSE, E_AGENT_SAVE, "storage", 0)
        ELSE IF indexing
        \* the row is committed, then the message refers to dest_path, which
        \* is not bound in this branch: the NameError is caught and reported
        THEN Out(Append(table, row), nid + 1, copied, FALSE, E_AGENT_SAVE, "message", nid)
        ELSE Out(Append(table, row), nid + 1, copied, TRUE, "", "added", nid)

(* what one call of add_document does to the store and the archive, and   *)
(* what it returns.  connectOk, checkOk, insertOk: whether the store      *)
(* answers; mk*, copyOk: whether the file system obeys                    *)
agent_add_document(table, nid, files, f, a, connectOk, checkOk, mkFullOk, mkSimpleOk, copyOk, insertOk) ==
    AgentStore(table, nid, files, f, a,
               AgentData(f, a, AgentParsedDocuments[f, a.sector_code]),
               connectOk, checkOk, mkFullOk, mkSimpleOk, copyOk, insertOk)

AddDocumentAgent(f, a, connectOk, checkOk, mkFullOk, mkSimpleOk, copyOk, insertOk) ==
    \E r \in {agent_add_document(db, nextId, archive, f, a, connectOk, checkOk,
                                 mkFullOk, mkSimpleOk, copyOk, insertOk)} :
        /\ variant = "agent"
        /\ r.db # db => Len(db) < MaxRecords
        /\ Cardinality(DOMAIN r.archive) <= MaxFiles
        /\ db' = r.db
        /\ nextId' = r.nextId
        /\ archive' = r.archive
        /\ last' = [Result("add_document",
                           AddInput(f, FALSE, get_file_content_ok(f),
                                    IF mkFullOk THEN "full"
                                    ELSE IF mkSimpleOk THEN "fallback" ELSE "none",
                                    copyOk),
                           r.success, r.error, r.cause) EXCEPT
                       !.document_id = r.document_id,
                       !.raised = (r.cause = "raised")]
        /\ errCauses' = RecordCause(last')
        /\ UNCHANGED <<inflight, variant, index_only_mode, database_initialized, cacheInit, search_cache,
                       cache_timestamps, now>>

(* add_document of the agent revision taken step by step, for calls made  *)
(* at the same time by several callers (sessions of the interface), each  *)
(* on its own connection.  Every call carries the same expertise_number.  *)
MaxCallers == 2

Callers == 1..MaxCallers

RaceFiles == {F_a1, F_a2, F_c}

(* the arguments of every call: the same expertise_number *)
RaceArgs == [sector_code |-> None, expert_name |-> Petrenko, expertise_year |-> 0,
             expertise_number |-> Num10_2]

(* the call returns *)
Returned(call, success, cause) ==
    [call EXCEPT !.pc = "done", !.success = success, !.cause = cause]

(* add_document up to the data dictionary: the file is read and parsed *)
BeginAdd(p, f) ==
    /\ variant = "agent"
    /\ p \notin DOMAIN inflight
    /\ inflight' = Put(inflight, p,
                       [f |-> f, pc |-> "check", success |-> FALSE, cause |-> "",
                        data |-> AgentData(f, RaceArgs,
                                           AgentParsedDocuments[f, RaceArgs.sector_code])])
    /\ UNCHANGED <<variant, index_only_mode, database_initialized, db, nextId, archive,
                   cacheInit, search_cache, cache_timestamps, now, last, errCauses>>

(* SELECT id FROM expertise_cases WHERE expertise_number = ? *)
CheckUnique(p) ==
    /\ p \in DOMAIN inflight
    /\ inflight[p].pc = "check"
    /\ inflight' = [inflight EXCEPT ![p] =
                       IF UniqueViolation(db, @.data.expertise_number)
                       THEN Returned(@, FALSE, "integrity")
                       ELSE [@ EXCEPT !.pc = "copy"]]
    /\ UNCHANGED <<variant, index_only_mode, database_initialized, db, nextId, archive,
                   cacheInit, search_cache, cache_timestamps, now, last, errCauses>>

(* the reference is kept (index-only mode) or the file is copied to its  *)
(* destination (storage mode)                                             *)
PlaceFile(p) ==
    /\ p \in DOMAIN inflight
    /\ inflight[p].pc = "copy"
    /\ \E call \in {inflight[p]} :
       \E dest_file_path \in {get_file_destination_path(call.data.sector,
                                                        call.data.expert_name,
                                                        call.data.expertise_year,
                                                        call.data.expertise_number, TRUE)
                                  \o <<Basename(call.f)>>} :
          IF index_only_mode
          THEN /\ inflight' = [inflight EXCEPT ![p] =
                                  IF StartsWith(PathOf(call.f), existing_archive_path)
                                  THEN [@ EXCEPT !.pc = "insert"]
                                  ELSE Returned(@, FALSE, "outside")]
               /\ UNCHANGED archive
          ELSE /\ archive' = Copy2(archive, dest_file_path, PathOf(call.f))
               /\ inflight' = [inflight EXCEPT ![p] =
                                  [@ EXCEPT !.pc = "insert",
                                            !.data.file_path = dest_file_path]]
    /\ UNCHANGED <<variant, index_only_mode, database_initialized, db, nextId,
                   cacheInit, search_cache, cache_timestamps, now, last, errCauses>>

(* INSERT INTO expertise_cases and commit: the UNIQUE constraint refuses *)
(* a number that is taken; after the commit the message is built, which  *)
(* in index-only mode refers to the unbound dest_path                    *)
InsertRow(p) ==
    /\ p \in DOMAIN inflight
    /\ inflight[p].pc = "insert"
    /\ IF UniqueViolation(db, inflight[p].data.expertise_number)
       THEN /\ inflight' = [inflight EXCEPT ![p] = Returned(@, FALSE, "storage")]
            /\ UNCHANGED <<db, nextId>>
       ELSE /\ db' = Append(db, MkRow(nextId, inflight[p].data))
            /\ nextId' = nextId + 1
            /\ inflight' = [inflight EXCEPT ![p] =
                               IF index_only_mode THEN Returned(@, FALSE, "message")
                               ELSE Returned(@, TRUE, "added")]
    /\ UNCHANGED <<variant, index_only_mode, database_initialized, archive,
                   cacheInit, search_cache, cache_timestamps, now, last, errCauses>>

(* what a call of delete_document is given and finds: whether a row has  *)
(* the id, whether its file is in the archive folder, whether the store   *)
(* answers and whether os.remove succeeds                                  *)
DeleteInput(expertise_id, storeOk, removeOk) ==
    [expertise_id |-> expertise_id,
     present |-> \E r \in Rows(db) : r.id = expertise_id,
     file_exists |-> \E r \in Rows(db) : r.id = expertise_id /\ r.file_path \in DOMAIN archive,
     storeOk |-> storeOk, removeOk |-> removeOk]

(* a delete_document that gives up when the file cannot be removed *)
DeleteDocumentStrict(expertise_id, connectOk, selectOk, removeOk, deleteOk) ==
    LET found == {r \in Rows(db) : r.id = expertise_id}
        row == CHOOSE r \in found : TRUE
        blocked == found # {} /\ row.file_path \in DOMAIN archive /\ ~removeOk
        input == DeleteInput(expertise_id, connectOk /\ selectOk /\ deleteOk, removeOk)
    IN  /\ variant = "agent"
        /\ IF found = {} \/ blocked \/ ~(connectOk /\ selectOk /\ deleteOk)
           THEN /\ last' = Result("delete_document", input, FALSE, E_AGENT_DELETE, "storage")
                /\ UNCHANGED <<db, archive>>
           ELSE /\ archive' = [p \in DOMAIN archive \ {row.file_path} |-> archive[p]]
                /\ db' = SelectSeq(db, LAMBDA r : r.id # expertise_id)
                /\ last' = [Result("delete_document", input, TRUE, "", "deleted")
                               EXCEPT !.document_id = expertise_id]
        /\ UNCHANGED <<inflight, variant, index_only_mode, database_initialized, nextId,
                       cacheInit, search_cache, cache_timestamps, now, errCauses>>

(* delete_document(expertise_id) *)
DeleteDocument(expertise_id, connectOk, selectOk, removeOk, deleteOk) ==
    LET found == {r \in Rows(db) : r.id = expertise_id}
        row == CHOOSE r \in found : TRUE
        file_path == row.file_path
        parent_dir == SubSeq(file_path, 1, Len(file_path) - 1)
        removed == file_path \in DOMAIN archive /\ removeOk
        files == IF removed THEN [p \in DOMAIN archive \ {file_path} |-> archive[p]]
                 ELSE archive
        input == DeleteInput(expertise_id, connectOk /\ selectOk /\ deleteOk, removeOk)
        Fail(error, cause) == Result("delete_document", input, FALSE, error, cause)
    IN  /\ variant = "agent"
        /\ IF ~connectOk
           THEN last' = [Fail(E_AGENT_RAISED, "raised") EXCEPT !.raised = TRUE]
                /\ UNCHANGED <<db, archive>>
           ELSE IF ~selectOk
           THEN last' = Fail(E_AGENT_DELETE, "storage")
                /\ UNCHANGED <<db, archive>>
           ELSE IF found = {}
           THEN last' = Fail(E_AGENT_NOT_FOUND, "missing")
                /\ UNCHANGED <<db, archive>>
           ELSE /\ archive' = files
                /\ IF deleteOk
                   THEN /\ db' = SelectSeq(db, LAMBDA r : r.id # expertise_id)
                        /\ last' = [Result("delete_document", input, TRUE, "", "deleted")
                                       EXCEPT !.document_id = expertise_id]
                   ELSE /\ db' = db
                        /\ last' = Fail(E_AGENT_DELETE, "storage")
        /\ UNCHANGED <<inflight, variant, index_only_mode, database_initialized, nextId, cacheInit, search_cache,
                       cache_timestamps, now, errCauses>>
-----------------------------------------------------------------------------
(* The directory tree that the batch operations walk *)

UpperCase == <<"A","B","C","D","E","F","G","H","I","J","K","L","M",
               "N","O","P","Q","R","S","T","U","V","W","X","Y","Z">>
LowerCase == <<"a","b","c","d","e","f","g","h","i","j","k","l","m",
               "n","o","p","q","r","s","t","u","v","w","x","y","z">>

(* str.lower() *)
Lower(s) ==
    [i \in DOMAIN s |->
        IF \E k \in DOMAIN UpperCase : UpperCase[k] = s[i]
        THEN LowerCase[CHOOSE k \in DOMAIN UpperCase : UpperCase[k] = s[i]]
        ELSE s[i]]

\* characters matched by \w
WordChars == Range(UpperCase) \cup Range(LowerCase) \cup Digits \cup {"_"}

(* os.walk(archive_path): the files of the tree in the order of the walk *)
WalkOrder == <<F_a1, F_a2, F_b, F_c, F_txt, F_big, F_locked, F_tmp, F_copy>>

D_missing == <<"m","i","s","s","i","n","g">>

(* archive_path arguments of the batch operations; << >> is the root of   *)
(* the tree                                                                *)
ArchivePaths == {<< >>, <<D_inbox>>, <<D_missing>>}

(* os.path.exists(archive_path) *)
PathExists(archive_path) ==
    archive_path = << >> \/ \E f \in Files : StartsWith(f.dir, archive_path)

(* the directories the walk descends through to reach the file *)
DirsBelow(f, archive_path) == SubSeq(f.dir, Len(archive_path) + 1, Len(f.dir))

SKIP_DIRECTORIES ==
    {<<"t","e","m","p">>, <<"t","m","p">>, <<"c","a","c","h","e">>,
     <<"r","e","c","y","c","l","e",".","b","i","n">>,
     <<"$","r","e","c","y","c","l","e",".","b","i","n">>,
     <<"s","y","s","t","e","m"," ","v","o","l","u","m","e"," ",
       "i","n","f","o","r","m","a","t","i","o","n">>}

is_system_directory(dir_name) ==
    (Len(dir_name) > 0 /\ dir_name[1] = ".") \/ Lower(dir_name) \in SKIP_DIRECTORIES

(* the file is met by os.walk(archive_path) with system directories pruned *)
Walked(f, archive_path) ==
    /\ StartsWith(f.dir, archive_path)
    /\ \A i \in DOMAIN DirsBelow(f, archive_path) :
           ~is_system_directory(DirsBelow(f, archive_path)[i])

(* the files os.walk meets below each archive_path, in walk order *)
WalkedFiles ==
    [archive_path \in ArchivePaths |->
        SelectSeq(WalkOrder, LAMBDA f : Walked(f, archive_path))]

-----------------------------------------------------------------------------
(* Batch scan of the optimised revision *)

E_NOT_FOUND == "Arkhiv ne znaideno"              \* 'Архів не знайдено: ...'
M_NOTHING == "Nemaye failiv dlya skanuvannya"    \* 'Немає файлів для сканування'

(* _get_existing_files_data: hashes and paths of the rows that have a hash *)
_get_existing_files_data(table, ok) ==
    LET data == {r \in Rows(table) : r.file_hash # None}
    IN  IF ok
        THEN [hashes |-> {r.file_hash : r \in {x \in data : ~Falsy(x.file_hash)}},
              paths |-> {r.file_path : r \in {x \in data : x.file_path # << >>}}]
        ELSE [hashes |-> {}, paths |-> {}]

_collect_files_for_scanning(table, archive_path, skip_existing, existingOk) ==
    LET existing == IF skip_existing THEN _get_existing_files_data(table, existingOk)
                    ELSE [hashes |-> {}, paths |-> {}]
        Keep(f) ==
            /\ f.ext \in SUPPORTED_EXTENSIONS
            /\ f.size_mb <= MAX_FILE_SIZE_MB
            /\ skip_existing =>
                   /\ PathOf(f) \notin existing.paths
                   /\ ~(~Falsy(_get_file_hash(f)) /\ _get_file_hash(f) \in existing.hashes)
    IN  SelectSeq(WalkedFiles[archive_path], Keep)

(* the files below archive_path whose path or content hash a row of the  *)
(* table holds when the scan begins                                       *)
RecordedPaths(table, archive_path) ==
    {PathOf(f) : f \in {x \in Range(WalkedFiles[archive_path]) :
                           \E r \in Rows(table) :
                               \/ r.file_path = PathOf(x)
                               \/ r.file_hash # None /\ r.file_hash = _get_file_hash(x)}}

(* cursor.executemany of INSERT OR IGNORE: a row whose expertise_number   *)
(* is taken is not inserted; the attempt uses up an id                    *)
RECURSIVE InsertOrIgnore(_, _, _, _)
InsertOrIgnore(table, nid, batch_data, processed) ==
    IF batch_data = << >>
    THEN [db |-> table, nextId |-> nid, processed |-> processed]
    ELSE IF UniqueViolation(table, Head(batch_data).expertise_number)
         THEN InsertOrIgnore(table, nid + 1, Tail(batch_data), processed)
         ELSE InsertOrIgnore(Append(table, MkRow(nid, Head(batch_data))), nid + 1,
                             Tail(batch_data), processed + 1)

(* _save_batch_to_database: (processed, errors) and the table afterwards; *)
(* when the store fails nothing of the batch is committed                 *)
_save_batch_to_database(table, nid, batch_data, saveOk) ==
    LET done == InsertOrIgnore(table, nid, batch_data, 0)
    IN  IF saveOk
        THEN [db |-> done.db, nextId |-> done.nextId, processed |-> done.processed,
              errors |-> 0]
        ELSE [db |-> table, nextId |-> nid, processed |-> 0,
              errors |-> Len(batch_data)]

(* the batch is handed to _save_batch_to_database and emptied; failBatch  *)
(* is the number of the batch that the store refuses (0: none)            *)
SaveBatch(acc, failBatch) ==
    LET saved == _save_batch_to_database(acc.db, acc.nextId, acc.batch_data,
                                         acc.batches + 1 # failBatch)
    IN  [acc EXCEPT !.db = saved.db,
                    !.nextId = saved.nextId,
                    !.processed = @ + saved.processed,
                    !.errors = @ + saved.errors,
                    !.batch_data = << >>,
                    !.batches = @ + 1]

(* the loop of _process_files_in_batches from file i on; raisesAt is the  *)
(* index of the file during whose processing an exception is raised       *)
(* (0: none)                                                               *)
RECURSIVE ProcessFiles(_, _, _, _, _, _)
ProcessFiles(files_list, i, acc, batch_size, raisesAt, failBatch) ==
    IF i > Len(files_list)
    THEN IF acc.batch_data # << >> THEN SaveBatch(acc, failBatch) ELSE acc
    ELSE LET f == files_list[i]
             parsed_data == [ParsedDocuments[f] EXCEPT
                                !.file_hash = _get_file_hash(f)]
             appended == [acc EXCEPT
                             !.batch_data = Append(@, parsed_data),
                             !.log = Append(@, [file |-> PathOf(f), outcome |-> "parsed"])]
             failed == [acc EXCEPT
                           !.errors = @ + 1,
                           !.error_details = Append(@, PathOf(f)),
                           !.log = Append(@, [file |-> PathOf(f), outcome |-> "error"])]
             next == IF raisesAt = i THEN failed
                     ELSE IF Len(appended.batch_data) >= batch_size
                          THEN SaveBatch(appended, failBatch)
                          ELSE appended
         IN  ProcessFiles(files_list, i + 1, next, batch_size, raisesAt, failBatch)

LoopStart(table, nid) ==
    [db |-> table, nextId |-> nid, batch_data |-> << >>, batches |-> 0,
     processed |-> 0, errors |-> 0, error_details |-> << >>, log |-> << >>]

(* the loop with the exception of a file caught outside it: the files     *)
(* after the failing one are not reached                                  *)
_process_files_until_failure(table, nid, files_list, batch_size, raisesAt, failBatch) ==
    LET reached == IF raisesAt \in DOMAIN files_list
                   THEN SubSeq(files_list, 1, raisesAt) ELSE files_list
    IN  ProcessFiles(reached, 1, LoopStart(table, nid), batch_size, raisesAt, failBatch)

_process_files_in_batches(table, nid, files_list, batch_size, raisesAt, failBatch) ==
    ProcessFiles(files_list, 1, LoopStart(table, nid), batch_size, raisesAt, failBatch)

(* error_details[:10] *)
FirstN(s, n) == SubSeq(s, 1, IF Len(s) < n THEN Len(s) ELSE n)

(* scan_existing_archive / _scan_existing_archive_impl of the optimised   *)
(* revision                                                                *)
(* the calls of progress_callback by _process_files_in_batches: after    *)
(* every file whose index i has (i + 1) % 10 == 0, when one is supplied   *)
PROGRESS_EVERY == 10

ProgressCalls(files_list, progress_callback) ==
    IF progress_callback
    THEN Cardinality({i \in DOMAIN files_list : i % PROGRESS_EVERY = 0})
    ELSE 0

ScanExistingArchiveOpt(archive_path, progress_callback, skip_existing, batch_size, existingOk, raisesAt, failBatch) ==
    LET files_to_scan == _collect_files_for_scanning(db, archive_path, skip_existing,
                                                     existingOk)
        results == _process_files_in_batches(db, nextId, files_to_scan, batch_size,
                                             raisesAt, failBatch)
        input == [archive_path |-> archive_path, skip_existing |-> skip_existing,
                  files |-> [i \in DOMAIN files_to_scan |-> PathOf(files_to_scan[i])],
                  recorded |-> RecordedPaths(db, archive_path),
                  progress_callback |-> progress_callback,
                  raisesAt |-> raisesAt, failBatch |-> failBatch]
    IN  /\ variant = "opt"
        /\ Len(db) < MaxRecords
        /\ raisesAt \in 0..Len(files_to_scan)
        /\ failBatch \in 0..Len(files_to_scan)
        /\ results.nextId <= MaxId + 1
        /\ cacheInit' = TRUE
        /\ IF ~PathExists(archive_path)
           THEN /\ last' = Result("scan_existing_archive", input, FALSE, E_NOT_FOUND,
                                  "missing")
                /\ UNCHANGED <<db, nextId, search_cache>>
           ELSE IF files_to_scan = << >>
           THEN /\ last' = Result("scan_existing_archive", input, TRUE, M_NOTHING,
                                  "nothing")
                /\ UNCHANGED <<db, nextId, search_cache>>
           ELSE /\ db' = results.db
                /\ nextId' = results.nextId
                /\ search_cache' = << >>
                \* the returned dictionary has the keys success, total_files,
                \* processed, errors, error_details: nothing names a skipped file
                /\ last' = [Result("scan_existing_archive", input, TRUE, "", "scanned")
                               EXCEPT !.tally = [total_files |-> Len(files_to_scan),
                                                 processed |-> results.processed,
                                                 errors |-> results.errors,
                                                 error_details |->
                                                     FirstN(results.error_details,
                                                            ErrorDetailsCap)],
                                      !.log = results.log,
                                      !.callbacks = ProgressCalls(files_to_scan,
                                                                  progress_callback)]
        /\ UNCHANGED <<inflight, variant, index_only_mode, database_initialized, archive, cache_timestamps, now,
                       errCauses>>

-----------------------------------------------------------------------------
(* Batch indexing of the agent revision *)

\* sector_keywords of determine_sector_from_path, in dictionary order:
\* "почерк та ТЕД": почерк, тед, підпис, рукопис, графолог
\* "балісти": балісти, зброя, пістолет, куля, гільза, постріл
\* "трасологія": трасол, слід, відбиток, взуття, шини, механо
\* "дактилоскопія": дактило, палець, папіляр, дерматогліф
\* "бал. облік": облік, кулі, гільзи, ідентифік
sector_keywords ==
    << <<S_pocherk, {<<"p","o","c","h","e","r","k">>, <<"t","e","d">>,
                     <<"p","i","d","p","y","s">>, <<"r","u","k","o","p","y","s">>,
                     <<"h","r","a","f","o","l","o","h">>}>>,
       <<S_balisty, {<<"b","a","l","i","s","t","y">>, <<"z","b","r","o","y","a">>,
                     <<"p","i","s","t","o","l","e","t">>, <<"k","u","l","y","a">>,
                     <<"h","i","l","z","a">>, <<"p","o","s","t","r","i","l">>}>>,
       <<S_trasolohiya, {<<"t","r","a","s","o","l">>, <<"s","l","i","d">>,
                         <<"v","i","d","b","y","t","o","k">>,
                         <<"v","z","u","t","t","y","a">>, <<"s","h","y","n","y">>,
                         <<"m","e","k","h","a","n","o">>}>>,
       <<S_daktyloskopiya, {<<"d","a","k","t","y","l","o">>, <<"p","a","l","e","t","s">>,
                            <<"p","a","p","i","l","y","a","r">>,
                            <<"d","e","r","m","a","t","o","h","l","i","f">>}>>,
       <<S_baloblik, {<<"o","b","l","i","k">>, <<"k","u","l","i">>,
                      <<"h","i","l","z","y">>,
                      <<"i","d","e","n","t","y","f","i","k">>}>> >>

(* a resolver that goes through the path segment by segment: the sector  *)
(* of the first segment that holds a keyword                              *)
determine_sector_by_segment(file_path) ==
    LET Hits(p) == {i \in DOMAIN sector_keywords :
                       \E keyword \in sector_keywords[i][2] :
                           Contains(Lower(file_path[p]), keyword)}
        parts == {p \in DOMAIN file_path : Hits(p) # {}}
    IN  IF parts = {} THEN S_pocherk
        ELSE LET p == CHOOSE q \in parts : \A r \in parts : q <= r
             IN  sector_keywords[CHOOSE i \in Hits(p) : \A j \in Hits(p) : i <= j][1]

(* determine_sector_from_path: the first sector of the table one of whose *)
(* keywords occurs in a part of the path; self.sectors.get(sector, sector)*)
(* returns the name itself, the table being keyed by the long names       *)
determine_sector_from_path(file_path) ==
    LET found == {i \in DOMAIN sector_keywords :
                     \E p \in DOMAIN file_path, keyword \in sector_keywords[i][2] :
                         Contains(Lower(file_path[p]), keyword)}
    IN  IF found = {} THEN S_pocherk
        ELSE sector_keywords[CHOOSE i \in found : \A j \in found : i <= j][1]

\* re.sub(r'[_\-\s]+', ' ', part).strip()
RECURSIVE CleanName(_)
CleanName(s) ==
    LET sep == {"_", "-", " "}
        Squeeze(t) == SelectSeq([i \in DOMAIN t |->
                                    IF t[i] \in sep
                                    THEN IF i > 1 /\ t[i - 1] \in sep THEN "" ELSE " "
                                    ELSE t[i]],
                                LAMBDA c : c # "")
        q == Squeeze(s)
    IN  IF q # << >> /\ Head(q) = " " THEN CleanName(Tail(q))
        ELSE IF q # << >> /\ q[Len(q)] = " " THEN CleanName(SubSeq(q, 1, Len(q) - 1))
        ELSE q

\* 'архів', 'archive', 'documents'
NotExpertParts ==
    {<<"a","r","k","h","i","v">>, <<"a","r","c","h","i","v","e">>,
     <<"d","o","c","u","m","e","n","t","s">>}

(* extract_expert_from_path *)
extract_expert_from_path(file_path) ==
    LET ok == {p \in DOMAIN file_path :
                  /\ file_path[p] # << >>
                  /\ Range(file_path[p]) \subseteq WordChars
                  /\ Len(file_path[p]) > 3
                  /\ ~(Len(file_path[p]) = 4 /\ Range(file_path[p]) \subseteq Digits)
                  /\ Lower(file_path[p]) \notin NotExpertParts
                  /\ CleanName(file_path[p]) # << >>}
    IN  IF ok = {} THEN UnknownExpert
        ELSE CleanName(file_path[CHOOSE p \in ok : \A q \in ok : p <= q])

(* sector_code and expert_name that index_existing_archive_batch derives  *)
(* from the path of each file of the tree                                 *)
PathArgs ==
    [f \in Files |->
        [sector_code |-> determine_sector_from_path(PathOf(f)),
         expert_name |-> extract_expert_from_path(PathOf(f)),
         expertise_year |-> 0,
         expertise_number |-> None]]

(* is_large_file(file_path, max_size_mb=100) *)
is_large_file(f) == FileSize(f) > MAX_FILE_SIZE_MB * BytesPerMb

\* directories that scan_existing_archive does not descend into:
\* d.startswith('.') or d.lower() in ['temp', 'tmp', 'cache']
AgentSkipped(dir_name) ==
    (Len(dir_name) > 0 /\ dir_name[1] = ".")
    \/ Lower(dir_name) \in {<<"t","e","m","p">>, <<"t","m","p">>, <<"c","a","c","h","e">>}

(* scan_existing_archive: found_files *)
scan_existing_archive(archive_path) ==
    SelectSeq(WalkOrder,
              LAMBDA f : /\ StartsWith(f.dir, archive_path)
                         /\ \A i \in DOMAIN DirsBelow(f, archive_path) :
                                ~AgentSkipped(DirsBelow(f, archive_path)[i])
                         /\ f.ext \in SUPPORTED_EXTENSIONS
                         /\ ~is_large_file(f)
                         /\ f.readable)

(* scan_existing_archive: errors, the entries 'Пропущено великий файл'    *)
(* and 'Немає доступу до файлу'                                           *)
scan_errors(archive_path) ==
    {[file |-> PathOf(f), reason |-> IF is_large_file(f) THEN "large" ELSE "access"] :
        f \in {x \in Files :
                  /\ StartsWith(x.dir, archive_path)
                  /\ \A i \in DOMAIN DirsBelow(x, archive_path) :
                         ~AgentSkipped(DirsBelow(x, archive_path)[i])
                  /\ x.ext \in SUPPORTED_EXTENSIONS
                  /\ (is_large_file(x) \/ ~x.readable)}}

(* found_files of scan_existing_archive for each archive_path *)
FoundFiles == [archive_path \in ArchivePaths |-> scan_existing_archive(archive_path)]

(* results.append(...) after add_document returned r for file f, or       *)
(* raised                                                                  *)
Indexed(acc, f, r) ==
    [db |-> r.db, nextId |-> r.nextId, archive |-> r.archive,
     results |-> Append(acc.results,
                        [file |-> PathOf(f),
                         outcome |-> IF r.cause = "raised" THEN "error" ELSE r.cause,
                         success |-> r.success,
                         message |-> IF r.cause = "raised" THEN E_AGENT_INDEXING
                                     ELSE r.error])]

(* the loop of index_existing_archive_batch from file i on; fault is what *)
(* the environment does to the add_document call of file faultAt          *)
RECURSIVE IndexFiles(_, _, _, _, _)
IndexFiles(found_files, i, acc, faultAt, fault) ==
    IF i > Len(found_files) THEN acc
    ELSE LET f == found_files[i]
             here == IF faultAt = i THEN fault ELSE "none"
             a == PathArgs[f]
         IN  IndexFiles(found_files, i + 1,
                        Indexed(acc, f,
                                agent_add_document(acc.db, acc.nextId, acc.archive, f, a,
                                                   here # "connect", here # "check",
                                                   here \notin {"mkFull", "mkAll"},
                                                   here # "mkAll", here # "copy",
                                                   here # "insert")),
                        faultAt, fault)

(* scan_existing_archive(archive_path) called by itself: the pair        *)
(* (found_files, errors) of a walk that is not answered from the scan     *)
(* cache                                                                  *)
ScanExistingArchiveAgent(archive_path) ==
    \E found_files \in {FoundFiles[archive_path]} :
        /\ variant = "agent"
        /\ last' = [Result("scan_existing_archive",
                           [archive_path |-> archive_path, skip_existing |-> FALSE,
                            files |-> [i \in DOMAIN found_files |->
                                          PathOf(found_files[i])],
                            recorded |-> RecordedPaths(db, archive_path),
                            progress_callback |-> FALSE, raisesAt |-> 0,
                            failBatch |-> 0],
                           TRUE, "", "found")
                       EXCEPT !.tally = [NoTally EXCEPT !.total_files = Len(found_files)],
                              !.skipped = scan_errors(archive_path)]
        /\ UNCHANGED <<inflight, variant, index_only_mode, database_initialized, db, nextId,
                       archive, cacheInit, search_cache, cache_timestamps, now, errCauses>>

(* index_existing_archive_batch(archive_path) *)
IndexExistingArchiveBatch(archive_path, progress_callback, faultAt, fault) ==
    \E found_files \in {FoundFiles[archive_path]} :
    \E done \in {IndexFiles(found_files, 1,
                             [db |-> db, nextId |-> nextId, archive |-> archive,
                              results |-> << >>],
                             faultAt, fault)} :
    \E input \in {[archive_path |-> archive_path, skip_existing |-> FALSE,
                    files |-> [i \in DOMAIN found_files |-> PathOf(found_files[i])],
                    recorded |-> RecordedPaths(db, archive_path),
                    progress_callback |-> progress_callback,
                    raisesAt |-> IF fault = "connect" THEN faultAt ELSE 0,
                    failBatch |-> 0]} :
        /\ variant = "agent"
        /\ Len(db) < MaxRecords
        /\ faultAt \in 0..Len(found_files)
        /\ (faultAt = 0) <=> (fault = "none")
        /\ done.nextId <= MaxId + 1
        /\ db' = done.db
        /\ nextId' = done.nextId
        /\ archive' = done.archive
        /\ last' = [Result("index_existing_archive_batch", input, TRUE, "", "indexed")
                       EXCEPT !.tally = [NoTally EXCEPT !.total_files = Len(found_files)],
                              !.log = done.results,
                              \* progress_callback(i, total_files, ...) at the top
                              \* of every pass of the loop
                              !.callbacks = IF progress_callback THEN Len(found_files)
                                            ELSE 0]
        /\ UNCHANGED <<inflight, variant, index_only_mode, database_initialized, cacheInit, search_cache,
                       cache_timestamps, now, errCauses>>

-----------------------------------------------------------------------------
(* The Type Classifier and the Sector Resolver called on their own *)

MaxOccurrences == 2     \* occurrences of one keyword in a text
MaxPathLen == 3         \* segments of a path given to the resolver

(* the keywords that occur in the classified texts *)
ClassKeywords == {"pistolet", "slid", "postril", "pidpys", "papilyar", "kulya"}

NoText == [numTok |-> Empty, erddrTok |-> Empty, date |-> NoDate, bareYear |-> 0,
           expert |-> Empty, kw |-> NoWords, ctx |-> {}]

(* texts by the number of occurrences of each keyword; 'pidpys' may be    *)
(* followed by a context word                                              *)
ClassifierTexts ==
    {t \in {[NoText EXCEPT !.kw = [k \in Keywords |->
                                      IF k \in ClassKeywords THEN c[k] ELSE 0],
                           !.ctx = x] :
                c \in [ClassKeywords -> 0..MaxOccurrences], x \in {{}, {"pidpys"}}} :
        \A k \in t.ctx : t.kw[k] > 0}

(* sector_code arguments of determine_expertise_type_by_sector: the       *)
(* values of self.sectors, the keys of sector_type_mapping, another text  *)
SectorHints == sectors \cup {S_pocherk, BadSector}

\* path segment '55-23СЕ'
D_case == <<"5","5","-","2","3","S","E">>
\* path segment 'Сліди'
D_slidy == <<"S","l","i","d","y">>
\* path segment 'Облік'
D_oblik == <<"O","b","l","i","k">>

\* 'Балісти_Петренко/2023/55-23СЕ'
ScenarioPath == <<D_balisty, D_year, D_case>>

Segments == {D_balisty, D_year, D_case, D_slidy, D_oblik, D_inbox}

ResolverPaths == UNION {[1..n -> Segments] : n \in 1..MaxPathLen}

(* the functions are pure: a behaviour applies one of them once *)
Classified(op, input, value) ==
    /\ last' = [Result(op, input, TRUE, "", "classified") EXCEPT !.value = value]
    /\ UNCHANGED <<inflight, variant, index_only_mode, database_initialized, db, nextId, archive,
                   cacheInit, search_cache, cache_timestamps, now, errCauses>>

DetermineExpertiseTypeAgent ==
    /\ variant = "agent"
    /\ last.op = "init"
    /\ \E text \in ClassifierTexts :
           Classified("determine_expertise_type", [text |-> text],
                      determine_expertise_type(text))

DetermineExpertiseTypeOpt ==
    /\ variant = "opt"
    /\ last.op = "init"
    /\ \E text \in ClassifierTexts :
           Classified("determine_expertise_type", [text |-> text],
                      _determine_expertise_type(text))

DetermineExpertiseTypeBySector ==
    /\ variant = "agent"
    /\ last.op = "init"
    /\ \E text \in ClassifierTexts, sector_code \in SectorHints :
           Classified("determine_expertise_type_by_sector",
                      [text |-> text, sector_code |-> sector_code],
                      determine_expertise_type_by_sector(text, sector_code))

DetermineSectorFromPath ==
    /\ variant = "agent"
    /\ last.op = "init"
    /\ \E file_path \in ResolverPaths :
           Classified("determine_sector_from_path", [file_path |-> file_path],
                      determine_sector_from_path(file_path))

-----------------------------------------------------------------------------
(* The state after construction and the next-state relations *)

Init ==
    /\ variant \in {"agent", "opt"}
    /\ index_only_mode \in BOOLEAN
    /\ database_initialized = (variant = "agent")
    /\ db = << >>
    /\ nextId = 1
    /\ archive = << >>
    /\ cacheInit = FALSE
    /\ search_cache = << >>
    /\ cache_timestamps = << >>
    /\ now = 0
    /\ last = Result("init", << >>, TRUE, "", "")
    /\ inflight = << >>
    /\ errCauses = {}

(* at most one fault of the environment per call *)
OptFaults == {"none", "init", "lookup", "mkExpert", "mkYear", "copy", "save"}
AgentFaults == {"none", "connect", "check", "mkFull", "copy", "insert"}
AgentAddFaults == AgentFaults \cup {"mkAll"}
DeleteFaults == {"none", "connect", "select", "remove", "delete"}
BatchSizes == {1, 2, 50}

(* the calls of add_document: the environment fails calls made without   *)
(* overriding arguments                                                   *)
OptCalls ==
    {c \in [force_reparse : BOOLEAN, override_data : OptOverrides, fault : OptFaults] :
        c.fault = "none" \/ c.override_data = << >>}

PlainArgs == [sector_code |-> None, expert_name |-> Petrenko, expertise_year |-> 0,
              expertise_number |-> None]

NumberArgs == [PlainArgs EXCEPT !.expertise_number = Num10_2]

AgentCalls ==
    {c \in [a : AgentArgs, fault : AgentAddFaults] : c.fault = "none" \/ c.a = PlainArgs}

NextAddOpt ==
    \E f \in AddFiles, c \in OptCalls :
        AddDocumentOpt(f, c.force_reparse, c.override_data, c.fault # "init",
                       c.fault # "lookup",
                       c.fault # "mkExpert", c.fault # "mkYear", c.fault # "copy",
                       c.fault # "save")

NextAddAgent ==
    \E f \in AddFiles, c \in AgentCalls :
        AddDocumentAgent(f, c.a, c.fault # "connect", c.fault # "check",
                         c.fault \notin {"mkFull", "mkAll"}, c.fault # "mkAll",
                         c.fault # "copy", c.fault # "insert")

ScanFaults ==
    {[existingOk |-> TRUE, raisesAt |-> 0, failBatch |-> 0],
     [existingOk |-> FALSE, raisesAt |-> 0, failBatch |-> 0]}
    \cup {[existingOk |-> TRUE, raisesAt |-> i, failBatch |-> 0] : i \in 1..MaxFaultAt}
    \cup {[existingOk |-> TRUE, raisesAt |-> 0, failBatch |-> i] : i \in 1..MaxFaultAt}

NextScanOpt ==
    \E archive_path \in ArchivePaths, skip_existing \in BOOLEAN,
       batch_size \in BatchSizes, fault \in ScanFaults :
        ScanExistingArchiveOpt(archive_path, FALSE, skip_existing, batch_size,
                               fault.existingOk, fault.raisesAt, fault.failBatch)

NextBatchAgent ==
    \E archive_path \in ArchivePaths, faultAt \in 0..MaxFaultAt,
       fault \in AgentFaults :
        IndexExistingArchiveBatch(archive_path, FALSE, faultAt, fault)

SearchFaults == {"none", "init", "query"}

NextSearchOpt ==
    \E filter \in SearchFilters, use_cache \in BOOLEAN, fault \in SearchFaults :
        SearchDocumentsOpt(filter, use_cache, fault # "init", fault # "query")

NextSearchAgent ==
    \E filter \in SearchFilters, use_cache \in BOOLEAN, queryOk \in BOOLEAN :
        SearchDocumentsAgent(filter, use_cache, queryOk)

NextDelete ==
    \E expertise_id \in 1..MaxRecords, fault \in DeleteFaults :
        DeleteDocument(expertise_id, fault # "connect", fault # "select",
                       fault # "remove", fault # "delete")

Next ==
    \/ NextAddOpt
    \/ NextAddAgent

Spec == Init /\ [][Next]_vars

(* batch operations over an index that plain calls of add_document have   *)
(* filled                                                                  *)
SeedOpt ==
    \E f \in AddFiles :
        AddDocumentOpt(f, FALSE, << >>, TRUE, TRUE, TRUE, TRUE, TRUE, TRUE)

SeedAgent ==
    \E f \in AddFiles :
        AddDocumentAgent(f, PlainArgs, TRUE, TRUE, TRUE, TRUE, TRUE, TRUE)

(* the batch operations called with a progress callback, the environment *)
(* failing nothing                                                        *)
ProgressScanOpt ==
    \E archive_path \in ArchivePaths, skip_existing \in BOOLEAN :
        ScanExistingArchiveOpt(archive_path, TRUE, skip_existing, 50, TRUE, 0, 0)

ProgressBatchAgent ==
    \E archive_path \in ArchivePaths :
        IndexExistingArchiveBatch(archive_path, TRUE, 0, "none")

NextDiscoverAgent ==
    \E archive_path \in ArchivePaths : ScanExistingArchiveAgent(archive_path)

NextScan ==
    \/ SeedOpt
    \/ SeedAgent
    \/ NextDiscoverAgent
    \/ NextScanOpt
    \/ NextBatchAgent
    \/ ProgressScanOpt
    \/ ProgressBatchAgent

SpecScan == Init /\ [][NextScan]_vars

(* searches, with and without the result cache, between writes *)
SearchSeedOpt ==
    \E f \in {F_a1, F_c} :
        AddDocumentOpt(f, FALSE, << >>, TRUE, TRUE, TRUE, TRUE, TRUE, TRUE)

SearchSeedAgent ==
    \E f \in {F_a1, F_c} :
        AddDocumentAgent(f, PlainArgs, TRUE, TRUE, TRUE, TRUE, TRUE, TRUE)

NextSearch ==
    \/ SearchSeedOpt
    \/ SearchSeedAgent
    \/ NextSearchOpt
    \/ NextSearchAgent
    \/ InitCacheSystem
    \/ Tick

SpecSearch == Init /\ [][NextSearch]_vars

(* records written by add_document, with the number parsed from the       *)
(* document or given by the caller, and read back by their number         *)
RoundTripFilters ==
    {[expertise_number |-> Num10s2, expertise_year |-> 0],
     [expertise_number |-> Num10_2, expertise_year |-> 0]}

RoundTripAddOpt ==
    \E f \in {F_a1, F_a2, F_c}, force_reparse \in BOOLEAN :
        AddDocumentOpt(f, force_reparse, << >>, TRUE, TRUE, TRUE, TRUE, TRUE, TRUE)

RoundTripAddAgent ==
    \E f \in {F_a1, F_a2, F_c}, a \in {PlainArgs, NumberArgs} :
        AddDocumentAgent(f, a, TRUE, TRUE, TRUE, TRUE, TRUE, TRUE)

RoundTripSearchOpt ==
    \E filter \in RoundTripFilters, use_cache \in BOOLEAN, queryOk \in BOOLEAN :
        SearchDocumentsOpt(filter, use_cache, TRUE, queryOk)

RoundTripSearchAgent ==
    \E filter \in RoundTripFilters, use_cache \in BOOLEAN, queryOk \in BOOLEAN :
        SearchDocumentsAgent(filter, use_cache, queryOk)

NextRoundTrip ==
    \/ RoundTripAddOpt
    \/ RoundTripAddAgent
    \/ RoundTripSearchOpt
    \/ RoundTripSearchAgent

SpecRoundTrip == Init /\ [][NextRoundTrip]_vars

(* the classifiers and the resolver applied to texts and paths *)
NextClassify ==
    \/ DetermineExpertiseTypeAgent
    \/ DetermineExpertiseTypeOpt
    \/ DetermineExpertiseTypeBySector
    \/ DetermineSectorFromPath

SpecClassify == Init /\ [][NextClassify]_vars

(* add_document calls of the agent revision interleaved step by step *)
NextRace ==
    \/ \E p \in Callers, f \in RaceFiles : BeginAdd(p, f)
    \/ \E p \in Callers : CheckUnique(p)
    \/ \E p \in Callers : PlaceFile(p)
    \/ \E p \in Callers : InsertRow(p)

SpecRace == Init /\ [][NextRace]_vars

(* deletions from an index that add_document of the agent revision filled *)
NextDeletion ==
    \/ SeedAgent
    \/ NextDelete

SpecDelete == Init /\ [][NextDeletion]_vars

(* the optimised revision used with its duplicate checks on: add_document *)
(* without force_reparse and batch scans with skip_existing, nothing      *)
(* failing                                                                 *)
DedupScanOpt ==
    \E archive_path \in ArchivePaths, batch_size \in BatchSizes :
        ScanExistingArchiveOpt(archive_path, FALSE, TRUE, batch_size, TRUE, 0, 0)

NextDedup ==
    \/ SeedOpt
    \/ DedupScanOpt

SpecDedup == Init /\ [][NextDedup]_vars

-----------------------------------------------------------------------------
(* Properties *)

(* C1: after any sequence of add_document and batch-scan operations no    *)
(* two persisted records have the same non-absent expertise_number        *)
C1_UniqueNumbers ==
    \A i \in DOMAIN db : \A j \in DOMAIN db :
        (i # j /\ db[i].expertise_number # None)
            => db[i].expertise_number # db[j].expertise_number

(* a batch scan has met a row whose number was taken: the row is in       *)
(* neither count and the number is held by exactly one record             *)
C1_CollisionIgnored ==
    /\ last.op = "scan_existing_archive"
    /\ last.cause = "scanned"
    /\ last.tally.processed + last.tally.errors < last.tally.total_files
    /\ Cardinality({i \in DOMAIN db : db[i].expertise_number = Num10s2}) = 1

(* C2: the result of add_document for a number that is already in the     *)
(* index differs from the result returned for a generic storage failure:  *)
(* the error of a storage failure is never one that a number conflict     *)
(* has returned                                                            *)
C2_ConflictDistinguishable ==
    (last.op = "add_document" /\ ~last.success /\ last.cause = "storage")
        => last.error \notin errCauses

(* C3: add_document, without force_reparse, of a file whose content hash  *)
(* a persisted record carries persists nothing and returns a duplicate    *)
(* result whose existing_id is the id of that record                      *)
C3_DuplicateByHash ==
    (/\ last.op = "add_document"
     /\ variant = "opt"
     /\ ~last.input.force
     /\ last.matching # {})
        => /\ ~last.success
           /\ last.cause = "duplicate"
           /\ last.document_id = 0
           /\ \A id \in last.matching : last.existing_id = id

(* C4: a search returns the rows that the index holds for its filters at  *)
(* the time of the search, whether or not a result for the same filters   *)
(* was cached before the last write                                       *)
C4_SearchSeesLastWrite ==
    (last.op = "search_documents" /\ last.success)
        => last.rows = (IF variant = "opt" THEN QueryOpt(db, last.input.filter)
                        ELSE QueryAgent(db, last.input.filter))

(* C5: no operation replaces the content of a file that is already in     *)
(* the archive folder                                                      *)
C5_NoOverwrite ==
    [][\A path \in DOMAIN archive :
           path \in DOMAIN archive' => archive'[path] = archive[path]]_vars

(* C6: every persisted record has an absent expertise_year or one within  *)
(* [2000, current_year + 1]                                                *)
C6_YearInRange ==
    \A r \in Rows(db) : r.expertise_year = 0 \/ YearInRange(r.expertise_year)

(* C7: the sector of every persisted record is one of the five codes of   *)
(* the sector table                                                        *)
C7_SectorInTable ==
    \A r \in Rows(db) : r.sector \in sectors

C9_CollisionsTallied ==
    (last.op = "scan_existing_archive" /\ last.cause = "scanned")
        => last.tally.processed + last.tally.errors + ReportedSkipped(last.tally)
               = last.tally.total_files

(* C10: the total of a batch scan is the number of files of the walked    *)
(* tree with a supported extension that pass the size and the             *)
(* readability filter                                                      *)
C10_TotalIsFilteredCount ==
    (/\ last.op = "scan_existing_archive"
     /\ last.cause = "scanned"
     /\ ~last.input.skip_existing)
        => last.tally.total_files =
               Cardinality({f \in Range(WalkedFiles[last.input.archive_path]) :
                               /\ f.ext \in SUPPORTED_EXTENSIONS
                               /\ f.size_mb <= MAX_FILE_SIZE_MB
                               /\ f.readable})

(* C11: when the content hash of a file of a supported format cannot be   *)
(* computed, add_document without force_reparse still checks the file     *)
(* name: if a record with the same source file name exists the call       *)
(* returns a duplicate result and persists nothing                        *)
C11_FallbackByName ==
    (/\ last.op = "add_document"
     /\ variant = "opt"
     /\ last.cause # "format"
     /\ ~last.input.force
     /\ last.input.file_hash = None
     /\ last.same_name # {})
        => /\ ~last.success
           /\ last.cause = "duplicate"
           /\ last.document_id = 0

(* C12: a search that queries the index with a filter equal to the        *)
(* expertise_number of a record whose fields are all populated returns    *)
(* exactly one row, the record as it was written (in the columns that     *)
(* the search selects)                                                     *)
C12_RoundTrip ==
    (/\ last.op = "search_documents"
     /\ last.cause = "queried"
     /\ last.input.filter.expertise_year = 0
     /\ ~Falsy(last.input.filter.expertise_number))
        => \A r \in Rows(db) :
               (r.expertise_number = last.input.filter.expertise_number /\ Populated(r))
                   => last.rows = {Selected(r)}

(* C13: no public operation lets an exception reach its caller: whatever  *)
(* fails (extraction, file system, store, initialisation of the store on  *)
(* first use), the operation returns a result                             *)
C13_NoExceptionPropagates == ~last.raised

(* C14: every record of the index has an expertise_number: when neither   *)
(* the parser nor the caller gives one, a placeholder is stored           *)
C14_NumberPresent == \A r \in Rows(db) : ~Falsy(r.expertise_number)

(* C15: for every text and every sector code of the agent's sector table  *)
(* given as hint, determine_expertise_type_by_sector returns the type     *)
(* expected for the sector when the computed type is undetermined or      *)
(* equal to it, and the expected type marked as auto-corrected when the   *)
(* computed type is another category                                      *)
C15_TypeFollowsSector ==
    (/\ last.op = "determine_expertise_type_by_sector"
     /\ last.input.sector_code \in sectors)
        => LET computed == determine_expertise_type(last.input.text)
               expected == SectorType(last.input.sector_code)
           IN  last.value = IF computed = T_undetermined \/ computed = expected
                            THEN expected
                            ELSE AutoCorrected(expected)

(* C16: the type classifier returns a category whose final score (keyword *)
(* weights, repeat bonus, weapons / trace disambiguation bonus) is        *)
(* maximal, and the undetermined sentinel exactly when no category        *)
(* scored above zero                                                       *)
C16_MaximalFinalScore ==
    (last.op = "determine_expertise_type")
        => LET score == TypeScores(last.input.text)
               scored == {i \in DOMAIN score : score[i] > 0}
           IN  IF scored = {}
               THEN last.value = T_undetermined
               ELSE \E i \in scored :
                        /\ last.value = expertise_keywords_weighted[i][1]
                        /\ \A j \in DOMAIN score : score[j] <= score[i]

(* C17: determine_sector_from_path returns the first sector, in the order *)
(* of the sector table, one of whose keywords occurs in a segment of the  *)
(* path (letter case ignored), the default sector when there is none, and *)
(* the weapons sector for the path Balisty_Petrenko/2023/55-23SE          *)
C17_FirstSectorInOrder ==
    (last.op = "determine_sector_from_path")
        => LET path == last.input.file_path
               Hit(i) == \E p \in DOMAIN path : \E keyword \in sector_keywords[i][2] :
                             Contains(Lower(path[p]), keyword)
           IN  /\ (\A i \in DOMAIN sector_keywords : ~Hit(i)) => last.value = DefaultSector
               /\ \A i \in DOMAIN sector_keywords :
                      (Hit(i) /\ \A j \in 1..(i - 1) : ~Hit(j))
                          => last.value = sector_keywords[i][1]
               /\ path = ScenarioPath => last.value = S_balisty

(* the resolver was given the path of the scenario and returned the       *)
(* weapons sector                                                          *)
C17_ScenarioResolved ==
    /\ last.op = "determine_sector_from_path"
    /\ last.input.file_path = ScenarioPath
    /\ last.value = S_balisty

(* C18: the Record Validator is applied after every field value of a      *)
(* record is set, parsed values and caller overrides alike, and before    *)
(* the record is persisted: every record of the Case Index written by    *)
(* the revision that has a validator is one the validator leaves as it   *)
(* is                                                                     *)
C18_ValidatedBeforePersisted ==
    variant = "opt" =>
        \A r \in Rows(db) : _validate_and_clean_expertise_data(r) = r

(* C19: in a scan with skip-existing enabled a file whose path or content *)
(* hash the Case Index already holds when the scan begins is left out     *)
(* before the parse step: it is not among the files the scan parses and   *)
(* persists                                                                *)
C19_RecordedFileSkipped ==
    (variant = "opt" /\ last.op = "scan_existing_archive" /\ last.input.skip_existing)
        => \A p \in last.input.recorded : p \notin Range(last.input.files)

(* C20: in storage mode every component of a destination path that comes  *)
(* from the record (sector, expert name, expertise number) is used with   *)
(* its filesystem-illegal characters replaced: the path of a stored file  *)
(* has no illegal character, begins with the sanitised sector and the     *)
(* sanitised expert name as one segment each, and carries the sanitised   *)
(* expertise number in one segment                                        *)
C20_ComponentsSanitized ==
    ~index_only_mode =>
        \A r \in {x \in Rows(db) : x.file_path \in DOMAIN archive} :
            /\ \A i \in DOMAIN r.file_path : r.file_path[i] = Sanitize(r.file_path[i])
            /\ r.file_path[1] = Sanitize(r.sector)
            /\ Len(r.file_path) > 2 => r.file_path[2] = Sanitize(r.expert_name)
            /\ (Len(r.file_path) > 2 /\ ~Falsy(r.expertise_number)) =>
                   \E i \in DOMAIN r.file_path :
                       StartsWith(r.file_path[i], Sanitize(r.expertise_number))

(* C21: in storage mode, when the full-depth destination directory cannot *)
(* be created while the sector directory can be used and the copy can be  *)
(* written, the file is placed in the sector directory and the call       *)
(* succeeds: it does not end in a placement failure                       *)
C21_FallbackToSector ==
    (/\ last.op = "add_document"
     /\ ~index_only_mode
     /\ last.cause \in {"added", "copy"}
     /\ last.input.placement = "fallback"
     /\ last.input.copyOk)
        => /\ last.success
           /\ \E r \in Rows(db) :
                  /\ r.id = last.document_id
                  /\ r.file_path = <<Sanitize(r.sector), r.source_file>>
                  /\ r.file_path \in DOMAIN archive

(* C22: a batch run during which the store refused a batch (no file of    *)
(* the run failed by itself, yet a batch was lost) does not report        *)
(* success                                                                 *)
C22_StoreFailureReported ==
    (/\ variant = "opt"
     /\ last.op = "scan_existing_archive"
     /\ last.cause = "scanned"
     /\ last.input.raisesAt = 0
     /\ last.input.failBatch # 0
     /\ last.tally.errors > 0)
        => ~last.success

(* C23: a batch run called with a progress callback completes with its    *)
(* full results, every file accounted for, and calls the callback at a    *)
(* coarse cadence: fewer times than there are files                       *)
C23_CallbackCoarse ==
    (/\ last.op \in {"scan_existing_archive", "index_existing_archive_batch"}
     /\ last.cause \in {"scanned", "indexed"}
     /\ last.input.progress_callback
     /\ Len(last.input.files) >= 2)
        => /\ last.success
           /\ Len(last.log) = Len(last.input.files)
           /\ last.callbacks < Len(last.input.files)

(* C24: when every one of the add_document calls made at the same time    *)
(* with the same expertise_number has returned, whatever the order of    *)
(* their steps, exactly one record with that number is persisted and     *)
(* exactly one call has reported success                                  *)
C24_ExactlyOneWins ==
    (/\ DOMAIN inflight = Callers
     /\ \A p \in Callers : inflight[p].pc = "done")
        => /\ Cardinality({r \in Rows(db) :
                              r.expertise_number = RaceArgs.expertise_number}) = 1
           /\ Cardinality({p \in Callers : inflight[p].success}) = 1

(* C25: a file of a supported format over the size ceiling that a batch   *)
(* scan meets is not among the candidates, is in the returned result as   *)
(* a skip with its reason, and the scan goes on: the files that pass the  *)
(* filters are all candidates                                              *)
C25_OversizeSkipRecorded ==
    (/\ last.op = "scan_existing_archive"
     /\ last.cause \in {"scanned", "found"}
     /\ ~last.input.skip_existing)
        => \A f \in Range(WalkedFiles[last.input.archive_path]) :
               (f.ext \in SUPPORTED_EXTENSIONS /\ f.size_mb > MAX_FILE_SIZE_MB)
                   => /\ PathOf(f) \notin Range(last.input.files)
                      /\ \E s \in last.skipped : s.file = PathOf(f) /\ s.reason = "large"
                      /\ \A g \in Range(WalkedFiles[last.input.archive_path]) :
                             (/\ g.ext \in SUPPORTED_EXTENSIONS
                              /\ g.size_mb <= MAX_FILE_SIZE_MB
                              /\ g.readable)
                                 => PathOf(g) \in Range(last.input.files)

(* C26: while the store answers, delete_document(id) for an id of the     *)
(* Case Index removes the record with that id and no other and reports    *)
(* success, whether or not the file could be removed; for an id that is   *)
(* not there it reports failure and leaves the Case Index and the         *)
(* archive folder as they were                                             *)
C26_DeleteExactlyThat ==
    [][(/\ last' # last
        /\ last'.op = "delete_document"
        /\ last'.input.storeOk)
           => IF last'.input.present
              THEN /\ last'.success
                   /\ Rows(db') = {r \in Rows(db) : r.id # last'.input.expertise_id}
                   /\ Len(db') = Len(db) - 1
              ELSE /\ ~last'.success
                   /\ db' = db
                   /\ archive' = archive]_vars

(* a record deleted although its file could not be removed *)
C26_DeletedFileKept ==
    /\ last.op = "delete_document"
    /\ last.success
    /\ last.input.file_exists
    /\ ~last.input.removeOk
    /\ \A r \in Rows(db) : r.id # last.input.expertise_id
    /\ DOMAIN archive # {}

(* C27: in both modes a call of add_document reports success exactly when *)
(* it has persisted a new record in the Case Index                        *)
C27_SuccessIffPersisted ==
    [][(last' # last /\ last'.op = "add_document")
           => (last'.success <=> (/\ Len(db') = Len(db) + 1
                                  /\ SubSeq(db', 1, Len(db)) = db))]_vars

(* C28: in storage mode every file in the archive folder is the file of   *)
(* a persisted record: a call of add_document that fails leaves no copy   *)
(* behind                                                                  *)
C28_NoOrphanCopy ==
    ~index_only_mode =>
        \A p \in DOMAIN archive : \E r \in Rows(db) : r.file_path = p

(* C29: after add_document calls without force_reparse and batch scans    *)
(* with skip-existing no two records of the Case Index have the same      *)
(* content hash                                                            *)
C29_HashesDistinct ==
    \A i, j \in DOMAIN db :
        (i # j /\ db[i].file_hash # None) => db[i].file_hash # db[j].file_hash

(* C30: a file whose text cannot be extracted ends as a failure:         *)
(* add_document reports failure for it, and in a batch scan it is logged  *)
(* as an error and not handed to the store                                 *)
C30_ExtractionFailureFails ==
    /\ (last.op = "add_document" /\ ~last.input.extracted) => ~last.success
    /\ (last.op = "scan_existing_archive" /\ last.cause = "scanned")
           => \A i \in DOMAIN last.input.files : \A f \in Files :
                  (PathOf(f) = last.input.files[i] /\ ~ExtractOk(f))
                      => last.log[i].outcome = "error"

====
